---- MODULE Spec2Model ----
(***************************************************************************)
(* simplestream-maintainer: discovery of products and versions, the build  *)
(* pipeline (buildIndex / buildProductCatalog / createDeltaFiles) and the  *)
(* catalog diff (diffProducts).                                            *)
(*                                                                         *)
(* Strings that the code splits on "." (file names, version names, item    *)
(* types, extensions) are sequences of their dot-separated parts:          *)
(* "lxd.tar.xz" is <<"lxd", "tar", "xz">>, "" is <<>>.  A hash is a        *)
(* sequence too: <<"sha256", c1, ..., cn>> is the SHA-256 of the           *)
(* concatenation of the contents c1..cn.                                   *)
(***************************************************************************)
EXTENDS Integers, Sequences, FiniteSets, TLC

(***************************************************************************)
(* Bounds of the model.                                                    *)
(***************************************************************************)
\* Largest value of the --workers flag that is explored (0..MaxWorkers).
MaxWorkers == 2
\* Number of consecutive invocations of build that are explored.
MaxPasses == 2
\* Number of kinds of environment failures (I/O error, xdelta3 failure,
\* cancellation) that are explored within one invocation.
MaxFaults == 1

(***************************************************************************)
(* Names: stream/item.go constants.                                        *)
(***************************************************************************)
FileChecksumSHA256 == <<"SHA256SUMS">>
FileImageConfig == <<"image", "yaml">>

ItemTypeMetadata == <<"lxd", "tar", "xz">>
ItemTypeSquashfs == <<"squashfs">>
ItemTypeSquashfsDelta == <<"squashfs", "vcdiff">>
ItemTypeDiskKVM == <<"disk-kvm", "img">>
ItemTypeDiskKVMDelta == <<"disk-kvm", "img", "vcdiff">>
ItemTypeRootTarXz == <<"root", "tar", "xz">>

\* Extensions, without their leading dot.
ItemExtMetadata == <<"tar", "xz">>
ItemExtSquashfs == <<"squashfs">>
ItemExtSquashfsDelta == <<"vcdiff">>
ItemExtDiskKVM == <<"qcow2">>
ItemExtDiskKVMDelta == <<"qcow2", "vcdiff">>

allowedItemExtensions ==
    {ItemExtMetadata, ItemExtSquashfs, ItemExtSquashfsDelta, ItemExtDiskKVM,
     ItemExtDiskKVMDelta}

\* strings.HasSuffix(name, "." + ext)
HasDotSuffix(name, ext) ==
    /\ Len(name) > Len(ext)
    /\ SubSeq(name, Len(name) - Len(ext) + 1, Len(name)) = ext

\* shared.HasSuffix(name, allowedItemExtensions...)
HasAllowedSuffix(name) == \E ext \in allowedItemExtensions : HasDotSuffix(name, ext)

\* filepath.Ext(name), without the dot; <<>> when the name has no dot.
Ext(name) == IF Len(name) >= 2 THEN <<name[Len(name)]>> ELSE <<>>

\* strings.CutSuffix(name, filepath.Ext(name))
CutExt(name) == IF Len(name) >= 2 THEN SubSeq(name, 1, Len(name) - 1) ELSE name

NoHash == <<>>
\* shared.FileHash(sha256.New(), paths...): the hash of the concatenated contents.
FileHash(contents) == <<"sha256">> \o contents

(***************************************************************************)
(* GetItem (stream package): classification of one file by its name.       *)
(***************************************************************************)
ItemFtype(name) ==
    IF Ext(name) = ItemExtSquashfs THEN ItemTypeSquashfs
    ELSE IF Ext(name) = ItemExtDiskKVM THEN ItemTypeDiskKVM
    ELSE IF Ext(name) = <<"vcdiff">>
         THEN IF HasDotSuffix(name, ItemExtDiskKVMDelta)
              THEN ItemTypeDiskKVMDelta
              ELSE ItemTypeSquashfsDelta
    ELSE name

ItemDeltaBase(name) ==
    IF Ext(name) = <<"vcdiff">>
    THEN IF HasDotSuffix(name, ItemExtDiskKVMDelta)
         THEN <<name[Len(name) - 2]>>
         ELSE <<name[Len(name) - 1]>>
    ELSE <<>>

GetItem(name, content, calcHash) ==
    [Name |-> name,
     Ftype |-> ItemFtype(name),
     SHA256 |-> IF calcHash THEN FileHash(<<content>>) ELSE NoHash,
     DeltaBase |-> ItemDeltaBase(name),
     CombinedSHA256DiskKvmImg |-> NoHash,
     CombinedSHA256SquashFs |-> NoHash,
     CombinedSHA256RootXz |-> NoHash]

(***************************************************************************)
(* ReadChecksumFile.  A line of SHA256SUMS is [checksum, filename], the    *)
(* text "<checksum>  <filename>".  After TrimSpace a line whose checksum   *)
(* is empty holds no space any more, SplitN yields one part and the line   *)
(* is skipped.  Later lines overwrite earlier ones.                        *)
(***************************************************************************)
LineParses(line) == line.checksum # <<>> /\ line.filename # <<>>

ReadChecksumFile(lines) ==
    LET names == {lines[i].filename : i \in {j \in 1..Len(lines) : LineParses(lines[j])}}
        last(n) == CHOOSE i \in 1..Len(lines) :
                      /\ LineParses(lines[i]) /\ lines[i].filename = n
                      /\ \A k \in (i + 1)..Len(lines) :
                            ~(LineParses(lines[k]) /\ lines[k].filename = n)
    IN [n \in names |-> lines[last(n)].checksum]

\* fmt.Sprintf("%s  %s\n", checksum, name) as appended by shared.AppendToFile
ChecksumLine(checksum, name) == [checksum |-> checksum, filename |-> name]

(***************************************************************************)
(* A version directory on disk is [exists, files, hasSums, sums]: files    *)
(* maps the names of its regular files (other than SHA256SUMS) to their    *)
(* contents, sums is the sequence of lines of SHA256SUMS when hasSums.     *)
(***************************************************************************)
NoDir == [exists |-> FALSE, files |-> <<>>, hasSums |-> FALSE, sums |-> <<>>]

NoVersion == [Items |-> <<>>, HasChecksums |-> FALSE, Checksums |-> <<>>]

\* GetVersion, first loop: the items of the directory.
VersionItems(dir, calcHashes) ==
    [n \in {m \in DOMAIN dir.files : HasAllowedSuffix(m)} |->
        GetItem(n, dir.files[n], calcHashes)]

\* Items that take part in a combined checksum, by type.
ItemsOfType(items, ftype) == {n \in DOMAIN items : items[n].Ftype = ftype}

\* A completeness test that also accepts root.tar.xz as the rootfs.
IsVersionCompleteWithRootTar(items) ==
    /\ ItemTypeMetadata \in DOMAIN items
    /\ \E n \in DOMAIN items :
          items[n].Ftype \in {ItemTypeSquashfs, ItemTypeDiskKVM, ItemTypeRootTarXz}

\* GetVersion: a version is complete when the item "lxd.tar.xz" exists and some
\* item has type squashfs or disk-kvm.img (root.tar.xz does not count).
IsVersionComplete(items) ==
    /\ ItemTypeMetadata \in DOMAIN items
    /\ \E n \in DOMAIN items : items[n].Ftype \in {ItemTypeSquashfs, ItemTypeDiskKVM}

\* The combined hash written to the metadata item for one type: the loop keeps
\* the value of the item it visits last (all candidates hold the same content
\* in this model, so the value does not depend on the visiting order).
CombinedHash(dir, items, ftype, calcHashes) ==
    LET hs == {IF calcHashes
               THEN FileHash(<<dir.files[ItemTypeMetadata], dir.files[n]>>)
               ELSE NoHash : n \in ItemsOfType(items, ftype)}
    IN IF hs = {} THEN NoHash ELSE CHOOSE h \in hs : TRUE

\* shared.ReadYAMLFile(configPath, config) returns no error: the content of
\* image.yaml is "yaml" when it parses and "not-yaml" when it does not.
ParsesAsYAML(content) == content # "not-yaml"

\* GetVersion, first loop: image.yaml is present and fails to parse.
InvalidImageConfig(dir) ==
    /\ FileImageConfig \in DOMAIN dir.files
    /\ ~ParsesAsYAML(dir.files[FileImageConfig])

\* GetVersion(rootDir, versionRelPath, calcHashes): [err, version].  The error of
\* image.yaml is returned from the loop over the files, before completeness is
\* looked at.
GetVersion(dir, calcHashes) ==
    IF ~dir.exists THEN [err |-> "not-exist", version |-> NoVersion]
    ELSE IF InvalidImageConfig(dir)
    THEN [err |-> "invalid-image-config", version |-> NoVersion]
    ELSE
    LET items == VersionItems(dir, calcHashes)
        withMeta ==
            IF ItemTypeMetadata \in DOMAIN items
            THEN [items EXCEPT ![ItemTypeMetadata] =
                    [@ EXCEPT
                      !.CombinedSHA256DiskKvmImg =
                          CombinedHash(dir, items, ItemTypeDiskKVM, calcHashes),
                      !.CombinedSHA256SquashFs =
                          CombinedHash(dir, items, ItemTypeSquashfs, calcHashes),
                      !.CombinedSHA256RootXz =
                          CombinedHash(dir, items, ItemTypeRootTarXz, calcHashes)]]
            ELSE items
    IN IF ~IsVersionComplete(items)
       THEN [err |-> "incomplete", version |-> NoVersion]
       ELSE [err |-> "nil",
             version |-> [Items |-> withMeta,
                          HasChecksums |-> dir.hasSums,
                          Checksums |-> IF dir.hasSums
                                        THEN ReadChecksumFile(dir.sums)
                                        ELSE <<>>]]

\* The error GetProduct(rootDir, productRelPath) returns: only ErrVersionIncomplete
\* is ignored, any other error of GetVersion is returned.
GetProductErr(pdirs) ==
    IF \E v \in DOMAIN pdirs : GetVersion(pdirs[v], FALSE).err = "invalid-image-config"
    THEN "invalid-image-config"
    ELSE "nil"

\* GetProduct(rootDir, productRelPath): pdirs maps version names to directories
\* (every subdirectory of the product, whatever its name).  Incomplete versions
\* are skipped; the result holds the complete ones.
GetProduct(pdirs) ==
    [Versions |->
        [v \in {w \in DOMAIN pdirs : GetVersion(pdirs[w], FALSE).err = "nil"} |->
            GetVersion(pdirs[v], FALSE).version]]

\* The error GetProducts(rootDir, streamName) returns: the walk stops at the first
\* product whose GetProduct fails with an error other than ErrProductInvalidPath.
GetProductsErr(sdirs) ==
    IF \E p \in DOMAIN sdirs : GetProductErr(sdirs[p]) # "nil"
    THEN "invalid-image-config"
    ELSE "nil"

\* A discovery that keeps the products without versions.
GetProductsKeepEmpty(sdirs) == [id \in DOMAIN sdirs |-> GetProduct(sdirs[id])]

\* GetProducts(rootDir, streamName): sdirs maps product ids to pdirs.  Products
\* with no versions are dropped.
GetProducts(sdirs) ==
    [id \in {p \in DOMAIN sdirs : DOMAIN GetProduct(sdirs[p]).Versions # {}} |->
        GetProduct(sdirs[id])]

(***************************************************************************)
(* diffProducts.  The two result maps only ever receive whole products     *)
(* (products of one side that the other side lacks).  For a product that   *)
(* both sides hold, a version that one side lacks is stored through        *)
(* new[id].Versions[name] = v (resp. old[id]...), where new[id] is the     *)
(* zero Product whose Versions map is nil: the assignment panics.          *)
(***************************************************************************)
NewLoopPanics(oldProducts, newProducts) ==
    \E id \in DOMAIN newProducts \cap DOMAIN oldProducts :
        DOMAIN newProducts[id].Versions \ DOMAIN oldProducts[id].Versions # {}

OldLoopPanics(oldProducts, newProducts) ==
    \E id \in DOMAIN oldProducts \cap DOMAIN newProducts :
        DOMAIN oldProducts[id].Versions \ DOMAIN newProducts[id].Versions # {}

diffProducts(oldProducts, newProducts) ==
    [panic |-> \/ NewLoopPanics(oldProducts, newProducts)
               \/ OldLoopPanics(oldProducts, newProducts),
     old |-> [id \in DOMAIN oldProducts \ DOMAIN newProducts |-> oldProducts[id]],
     new |-> [id \in DOMAIN newProducts \ DOMAIN oldProducts |-> newProducts[id]]]

(***************************************************************************)
(* createDeltaFiles.                                                       *)
(***************************************************************************)
\* The version names of the model, in the order slices.Sort gives them.
\* ".v2", a hidden directory: "." sorts before every letter and digit.
Hidden == <<"", "v2">>
V1 == <<"v1">>
V2 == <<"v2">>
V3 == <<"v3">>
VersionOrder == <<Hidden, V1, V2, V3>>
VersionNames == {VersionOrder[i] : i \in 1..Len(VersionOrder)}

\* shared.MapKeys followed by slices.Sort
SortVersions(S) == SelectSeq(VersionOrder, LAMBDA v : v \in S)

\* fmt.Sprintf("%s.%s.%s", prefix, preName, suffix)
DeltaName(itemName, ftype, preName) ==
    CutExt(itemName) \o preName \o
        (IF ftype = ItemTypeDiskKVM THEN <<"qcow2", "vcdiff">> ELSE <<"vcdiff">>)

\* os.Stat(sourcePath) finds the file
SourceExists(pdirs, preName, itemName) ==
    pdirs[preName].exists /\ itemName \in DOMAIN pdirs[preName].files

\* The deltas createDeltaFiles(ctx, rootDir, productRelPath, versionName) has to
\* compute with calcVCDiff: one per rootfs item of the targeted version whose
\* delta is not an item yet and whose source exists in the previous version.
DeltaTargets(pdirs, versionName) ==
    LET product == GetProduct(pdirs)
        versions == SortVersions(DOMAIN product.Versions)
    IN IF Len(versions) < 2 THEN {}
       ELSE UNION {
              LET preName == versions[i - 1]
                  curName == versions[i]
                  version == product.Versions[curName]
              IN {[vcdiff |-> DeltaName(n, version.Items[n].Ftype, preName),
                   item |-> n, pre |-> preName, cur |-> curName] :
                    n \in {m \in DOMAIN version.Items :
                             /\ version.Items[m].Ftype \in {ItemTypeDiskKVM, ItemTypeSquashfs}
                             /\ DeltaName(m, version.Items[m].Ftype, preName)
                                   \notin DOMAIN version.Items
                             /\ SourceExists(pdirs, preName, m)}}
              : i \in {j \in 2..Len(versions) :
                          versionName = <<>> \/ versions[j] = versionName}}

\* The content xdelta3 writes for a delta of source src and target tgt.
DeltaContent(src, tgt) == "vcdiff"

\* The directory of the targeted version after calcVCDiff wrote the deltas of ts.
WriteDeltas(dir, ts) ==
    [dir EXCEPT !.files =
        [n \in DOMAIN dir.files \cup {t.vcdiff : t \in ts} |->
            IF n \in {t.vcdiff : t \in ts} THEN DeltaContent("data", "data")
            ELSE dir.files[n]]]

(***************************************************************************)
(* Checksum verification of buildProductCatalog's job.                     *)
(***************************************************************************)
IsDelta(item) == item.Ftype \in {ItemTypeDiskKVMDelta, ItemTypeSquashfsDelta}

\* checksum, ok := version.Checksums[item.Name]: the zero value "" when !ok
LookupChecksum(version, name) ==
    IF name \in DOMAIN version.Checksums THEN version.Checksums[name] ELSE <<>>

\* Items whose line is appended to SHA256SUMS: deltas without an entry.
Appendable(version) ==
    {n \in DOMAIN version.Items :
        n \notin DOMAIN version.Checksums /\ IsDelta(version.Items[n])}

\* A verification that only compares the items the checksums file lists.
MismatchedAmongListed(version) ==
    {n \in (DOMAIN version.Items \cap DOMAIN version.Checksums) \ Appendable(version) :
        LookupChecksum(version, n) # version.Items[n].SHA256}

\* Items on which the job reports "Checksum mismatch".
Mismatched(version) ==
    {n \in DOMAIN version.Items \ Appendable(version) :
        LookupChecksum(version, n) # version.Items[n].SHA256}

\* The line the job appends for item n.
AppendedLine(version, n) == ChecksumLine(LookupChecksum(version, n), version.Items[n].Name)

\* All orders in which the items of S can be visited.
Orders(S) == {seq \in [1..Cardinality(S) -> S] :
                 \A i, j \in 1..Cardinality(S) : i # j => seq[i] # seq[j]}

\* SHA256SUMS after the lines of the items of order were appended.
AppendLines(dir, version, order) ==
    [dir EXCEPT !.sums = @ \o [i \in 1..Len(order) |-> AppendedLine(version, order[i])]]

\* A verification that does not look whether there is a checksums file.
VerifiedWithoutFile(version) == Mismatched(version) = {}

\* The job inserts the version it read: no checksums file, or no mismatch.
Verified(version) == ~version.HasChecksums \/ Mismatched(version) = {}

(***************************************************************************)
(* JSON: shared.WriteJSONFile followed by shared.ReadJSONFile.  Item.Name, *)
(* Version.Checksums and Version.ImageConfig carry the tag json:"-".       *)
(***************************************************************************)
VersionToJSON(version) ==
    [Items |-> [n \in DOMAIN version.Items |-> [version.Items[n] EXCEPT !.Name = <<>>]],
     HasChecksums |-> FALSE,
     Checksums |-> <<>>]

\* A writer that leaves out the products without versions.
CatalogToJSONOmitEmpty(cat) ==
    [id \in {p \in DOMAIN cat : DOMAIN cat[p].Versions # {}} |->
        [cat[id] EXCEPT !.Versions = [v \in DOMAIN cat[id].Versions |->
                                        VersionToJSON(cat[id].Versions[v])]]]

\* shared.WriteJSONFile(catalogPathTemp, catalog), as read back.
CatalogToJSON(cat) ==
    [id \in DOMAIN cat |->
        [cat[id] EXCEPT !.Versions = [v \in DOMAIN cat[id].Versions |->
                                        VersionToJSON(cat[id].Versions[v])]]]

(***************************************************************************)
(* Paths of buildIndex inside streams/<streamVersion>/ (file names).       *)
(***************************************************************************)
\* fmt.Sprintf("%s.json", streamName)
CatalogPath(streamName) == streamName \o <<"json">>
\* fmt.Sprintf(".%s.json.tmp", streamName)
CatalogPathTemp(streamName) == <<"">> \o streamName \o <<"json", "tmp">>
IndexPath == <<"index", "json">>
IndexPathTemp == <<"", "index", "json", "tmp">>

\* A file of the metadata directory: a catalog or an index, and the build pass
\* that wrote it (0: before the first pass).
CatalogFile(cat, run) == [kind |-> "catalog", catalog |-> cat, index |-> <<>>, run |-> run]
IndexFile(idx, run) == [kind |-> "index", catalog |-> <<>>, index |-> idx, run |-> run]

Put(f, k, val) == [x \in DOMAIN f \cup {k} |-> IF x = k THEN val ELSE f[x]]
Del(f, ks) == [x \in DOMAIN f \ ks |-> f[x]]

\* A file that a failed write left behind: a part of the JSON text.
PartialFile(run) == [kind |-> "partial", catalog |-> <<>>, index |-> <<>>, run |-> run]

\* The metadata directories a failed shared.WriteJSONFile(path, obj) may leave:
\* the file was not touched, or it was created and holds a part of the text.
\* The second outcome is explored in the last invocation only (what a later
\* invocation does with a stale staging file is not explored).
WriteJSONFileFails(m, path, run) ==
    IF run = MaxPasses THEN {m, Put(m, path, PartialFile(run))} ELSE {m}
Max(a, b) == IF a >= b THEN a ELSE b

\* index.AddEntry(streamName, catalogRelPath, *catalog)
AddEntry(idx, streamName, cat) ==
    Put(idx, streamName, [Path |-> CatalogPath(streamName), Products |-> DOMAIN cat])

(***************************************************************************)
(* State.                                                                  *)
(***************************************************************************)
VARIABLES
    streamNames,  \* buildIndex argument: the streams (image directories)
    workers,      \* buildIndex argument: the --workers flag
    disk,         \* disk[stream][product][version]: the version directories
    meta,         \* the files of streams/<streamVersion>/, by name
    pass,         \* number of invocations of build started so far
    status,       \* status[i]: invocation i is "running" or ended "ok", "error", "panic"
    pc,           \* position of the main goroutine
    si,           \* buildIndex: index of the stream being built
    ri,           \* buildIndex: index of the replace being applied
    replaces,     \* buildIndex: the staged renames, in order
    index,        \* buildIndex: the in-memory index
    catalog,      \* buildProductCatalog: catalog.Products
    added,        \* buildProductCatalog: newProducts returned by diffProducts
    todoP,        \* products of added not yet visited by the outer loop
    curP,         \* product of the outer loop
    todoV,        \* versions of curP not yet enqueued
    jobs,         \* the jobs channel: a FIFO of <<product, version>>
    wg,           \* the WaitGroup counter
    idle,         \* number of workers waiting in their select
    running,      \* the jobs being executed, one per busy worker
    err,          \* the variable err of buildProductCatalog, shared by all jobs
    cancelled,    \* ctx.Done() is closed
    prevMeta,     \* meta when the current invocation started
    log,          \* how each job of the current invocation ended
    faults,       \* failures injected by the environment in this invocation
    oldProducts,  \* diffProducts argument
    newProducts,  \* diffProducts argument
    diffed,       \* the outcome of diffProducts(oldProducts, newProducts), once called
    named,        \* a rootfs item, a predecessor name, the delta name and its item
    retainNum,    \* pruneStreamProductVersions argument
    pruned,       \* the outcome of pruneStreamProductVersions, once called
    fileAge,      \* fileAge[product][version]: hours since its youngest file was modified
    swept,        \* the outcome of pruneDanglingProductVersions, once called
    tree,         \* a directory tree, the pruneEmptyDirs arguments and its outcome
    configured,   \* a product directory with image.yaml files, and what GetProduct made of it
    mu            \* the goroutines of buildProductCatalog around the catalog mutex

vars == <<streamNames, workers, disk, meta, pass, status, pc, si, ri, replaces, index,
          catalog, added, todoP, curP, todoV, jobs, wg, idle, running, err,
          cancelled, prevMeta, log, faults, oldProducts, newProducts, diffed,
          named, retainNum, pruned, fileAge, swept, tree, configured, mu>>

\* The variables of the specifications of single functions; build leaves them
\* alone.
diffVars == <<oldProducts, newProducts, diffed, named, retainNum, pruned, fileAge, swept,
             tree, configured, mu>>

buildVars == <<catalog, added, todoP, curP, todoV, jobs, wg, idle, running, err>>

(***************************************************************************)
(* Initial states: image directories as producers left them and the        *)
(* catalog an earlier build published.  Version directories are deposited  *)
(* and removed whole, so a version the published catalog references is     *)
(* either complete on disk or gone.                                        *)
(***************************************************************************)
Lxd == ItemTypeMetadata
RootTarXz == ItemTypeRootTarXz
Squashfs == <<"rootfs", "squashfs">>
Qcow2 == <<"disk", "qcow2">>
UploadOrder == <<Lxd, Squashfs, Qcow2, RootTarXz>>

ItemDefaultContentSHA == FileHash(<<"data">>)
InvalidChecksum == <<"invalid-sha256-checksum">>

Dir(names) ==
    [exists |-> TRUE, files |-> [n \in names |-> "data"], hasSums |-> FALSE, sums |-> <<>>]

\* The directory with a SHA256SUMS that lists its files except those of missing,
\* with a wrong checksum for those of bad.
WithSums(dir, bad, missing) ==
    LET listed == SelectSeq(UploadOrder, LAMBDA n : n \in DOMAIN dir.files \ missing)
    IN [dir EXCEPT !.hasSums = TRUE,
                   !.sums = [i \in 1..Len(listed) |->
                               ChecksumLine(IF listed[i] \in bad THEN InvalidChecksum
                                            ELSE ItemDefaultContentSHA, listed[i])]]

\* The directory with an image.yaml of the given content.
WithConfig(dir, content) == [dir EXCEPT !.files = Put(@, FileImageConfig, content)]

S1 == <<"images">>
S2 == <<"images-daily">>
StreamUniverse == {S1, S2}
P1 == "ubuntu:noble:amd64:cloud"
P2 == "ubuntu:focal:amd64:cloud"
Products == {P1, P2}

OldestDirs ==
    {NoDir, Dir({Lxd, Qcow2}), Dir({Lxd, Squashfs, Qcow2}),
     WithSums(Dir({Lxd, Squashfs}), {}, {})}
MiddleDirs ==
    {NoDir, Dir({Lxd}), Dir({Squashfs}), Dir({Lxd, RootTarXz}),
     Dir({Lxd, Squashfs, Qcow2}),
     WithSums(Dir({Lxd, Squashfs}), {Squashfs}, {}),
     WithSums(Dir({Lxd, Squashfs}), {}, {Squashfs})}
NewestDirs ==
    {NoDir, Dir({Lxd, Squashfs}), WithSums(Dir({Lxd, Squashfs, Qcow2}), {}, {})}
SmallDirs == {NoDir, Dir({Lxd, Squashfs})}

NoVersions == [v \in VersionNames |-> NoDir]
NoProducts == [p \in Products |-> NoVersions]

\* The catalog entry of a version that is gone from the disk.
GoneVersion == VersionToJSON(GetVersion(Dir({Lxd, Squashfs}), TRUE).version)

\* A version may be referenced when an earlier build could insert it, or when
\* it is gone from the disk.
Referable(dir) ==
    \/ ~dir.exists
    \/ /\ GetVersion(dir, TRUE).err = "nil"
       /\ Verified(GetVersion(dir, TRUE).version)

\* The version sets a published catalog may reference for a product.
ReferenceSets(pdirs) ==
    LET ok == {v \in {V1, V2, V3} : Referable(pdirs[v])}
    IN {{}, ok \cap {V1}, ok}

\* The deltas of the model's rootfs files, in the order the earlier build
\* visited them.
DeltaOrder ==
    <<DeltaName(Squashfs, ItemTypeSquashfs, V1), DeltaName(Qcow2, ItemTypeDiskKVM, V1),
      DeltaName(Squashfs, ItemTypeSquashfs, V2), DeltaName(Qcow2, ItemTypeDiskKVM, V2)>>

\* The directory after the job appended the checksum lines of its deltas.
WithDeltaLines(dir) ==
    LET version == GetVersion(dir, TRUE).version
    IN IF version.HasChecksums
       THEN AppendLines(dir, version,
                        SelectSeq(DeltaOrder, LAMBDA n : n \in Appendable(version)))
       ELSE dir

\* The directory of version v as the build that inserted it left it, seen being
\* the directories of the product at that time.
BuiltDir(seen, v) ==
    CHOOSE built \in {WithDeltaLines(withDeltas) :
                        withDeltas \in {WriteDeltas(seen[v], DeltaTargets(seen, v))}} : TRUE

\* The directories of a product after the earlier build that inserted the
\* versions vs; the other versions were deposited later.
PriorBuild(pdirs, vs) ==
    [v \in DOMAIN pdirs |->
        IF v \in vs /\ pdirs[v].exists
        THEN BuiltDir([w \in DOMAIN pdirs |-> IF w \in vs THEN pdirs[w] ELSE NoDir], v)
        ELSE pdirs[v]]

PublishedVersion(dir) ==
    IF dir.exists THEN VersionToJSON(GetVersion(dir, TRUE).version) ELSE GoneVersion

\* The published product entries that reference the versions vs of pdirs; the
\* aliases, requirements and other attributes are those of the time of the
\* publication.
PublishedProduct(pdirs, vs) ==
    [Versions |-> [v \in vs |-> PublishedVersion(pdirs[v])], Attributes |-> "published"]

\* Single stream, single product, three versions.
RichDisks ==
    {[s \in StreamUniverse |->
        IF s = S1
        THEN [p \in Products |->
                IF p = P1 THEN [v \in VersionNames |->
                                   IF v = V1 THEN d1 ELSE IF v = V2 THEN d2
                                   ELSE IF v = V3 THEN d3 ELSE NoDir]
                ELSE NoVersions]
        ELSE NoProducts] :
     d1 \in OldestDirs, d2 \in MiddleDirs, d3 \in NewestDirs}

\* Two products and two streams, versions v1 and v2 only.
SmallDisks ==
    {[s \in StreamUniverse |->
        [p \in Products |->
            [v \in VersionNames |->
                IF s = S1 /\ p = P1 /\ v = V1 THEN a
                ELSE IF s = S1 /\ p = P1 /\ v = V2 THEN b
                ELSE IF s = S1 /\ p = P2 /\ v = V1 THEN c
                ELSE IF s = S2 /\ p = P1 /\ v = V1 THEN d
                ELSE NoDir]]] :
     a \in SmallDirs, b \in SmallDirs, c \in SmallDirs, d \in SmallDirs}

\* The metadata directory an earlier build left when it published, for stream
\* S1, the catalog that references the versions ref[p] of each product p.
PublishedMeta(d, ref) ==
    LET cat == [p \in DOMAIN ref |-> PublishedProduct(d[S1][p], ref[p])]
    IN (CatalogPath(S1) :> CatalogFile(cat, 0)) @@
       (IndexPath :> IndexFile(AddEntry(<<>>, S1, cat), 0))

\* Nothing published yet.
Fresh(names, d) == [streamNames |-> names, disk |-> d, meta |-> <<>>]

\* The image directories after the earlier build that published ref.
BuiltDisk(d, ref) ==
    [d EXCEPT ![S1] = [p \in Products |->
                          IF p \in DOMAIN ref THEN PriorBuild(d[S1][p], ref[p])
                          ELSE d[S1][p]]]

\* An earlier build published the references ref of stream S1; files may have
\* been deposited since.
Published(names, d, ref) ==
    UNION {{[streamNames |-> names, disk |-> built, meta |-> m] :
              m \in {PublishedMeta(built, ref)}} :
           built \in {BuiltDisk(d, ref)}}

RichScenarios ==
    UNION {{Fresh(<<S1>>, d)} \cup
           UNION {Published(<<S1>>, d, (P1 :> vs)) : vs \in ReferenceSets(d[S1][P1])} :
           d \in RichDisks}

SmallRefs(d) ==
    UNION {{r \in [ps -> SUBSET {V1, V2}] :
              \A p \in ps : /\ r[p] \in {{V1}, {V1, V2}}
                            /\ \A v \in r[p] : Referable(d[S1][p][v])} :
           ps \in SUBSET Products}

SmallScenarios ==
    UNION {{Fresh(<<S1, S2>>, d)} \cup
           UNION {Published(<<S1, S2>>, d, r) : r \in SmallRefs(d)} :
           d \in SmallDisks}

\* One stream with a hidden version directory and image.yaml files that parse or
\* do not, nothing published yet.
HiddenDirs == {NoDir, Dir({Lxd, Squashfs})}
ConfiguredDirs == {Dir({Lxd, Squashfs}), WithConfig(Dir({Lxd, Squashfs}), "yaml")}
MisconfiguredDirs ==
    {NoDir, WithConfig(Dir({Lxd, Squashfs}), "not-yaml"), WithConfig(Dir({Lxd}), "not-yaml")}

OddDisks ==
    {[s \in StreamUniverse |->
        [p \in Products |->
            [v \in VersionNames |->
                IF s = S1 /\ p = P1 /\ v = Hidden THEN h
                ELSE IF s = S1 /\ p = P1 /\ v = V1 THEN a
                ELSE IF s = S1 /\ p = P1 /\ v = V2 THEN b
                ELSE IF s = S1 /\ p = P2 /\ v = V1 THEN c
                ELSE NoDir]]] :
     h \in HiddenDirs, a \in ConfiguredDirs, b \in MisconfiguredDirs, c \in SmallDirs}

OddScenarios == {Fresh(<<S1>>, d) : d \in OddDisks}

Scenarios == RichScenarios \cup SmallScenarios \cup OddScenarios

\* diffed before diffProducts is called.
NotDiffed == [done |-> FALSE, result |-> [panic |-> FALSE, old |-> <<>>, new |-> <<>>]]

\* named before any name is drawn.
NotNamed == [itemName |-> <<>>, preName |-> <<>>, at |-> "none", vcdiff |-> <<>>,
             Ftype |-> <<>>, DeltaBase |-> <<>>]

\* fileAge where no file has an age that matters.
NoAges == <<>>

\* The goroutine of buildProductCatalog, and the holder of a free mutex.
Main == <<"main">>

Unlocked == <<>>

\* buildProductCatalog is not running.
NoGoroutines ==
    [mutex |-> Unlocked, main |-> "done", newProducts |-> <<>>, jobs |-> 0,
     worker |-> <<>>, accesses |-> {}]

\* configured where the image configuration is not looked at.
NoProduct == [Variant |-> "", versions |-> <<>>, done |-> FALSE,
              Requirements |-> <<>>, Aliases |-> <<>>]

\* tree where pruneEmptyDirs is not looked at.
NoTree == [dirs |-> {}, files |-> {}, rootDir |-> <<>>, keepRoot |-> FALSE,
           done |-> FALSE, before |-> {}]

\* swept before pruneDanglingProductVersions is called.
NotSwept == [done |-> FALSE, before |-> <<>>]

\* pruned before pruneStreamProductVersions is called.
NotPruned == [done |-> FALSE, err |-> "nil", before |-> <<>>]

\* The state of a build that has not started, apart from its arguments and
\* the files.
Idle ==
    /\ pass = 0
    /\ status = <<>>
    /\ pc = "idle"
    /\ si = 0
    /\ ri = 0
    /\ replaces = <<>>
    /\ index = <<>>
    /\ catalog = <<>>
    /\ added = <<>>
    /\ todoP = {}
    /\ curP = P1
    /\ todoV = {}
    /\ jobs = <<>>
    /\ wg = 0
    /\ idle = 0
    /\ running = {}
    /\ err = "nil"
    /\ cancelled = FALSE
    /\ log = {}
    /\ faults = {}

Init ==
    /\ \E sc \in Scenarios :
          /\ streamNames = sc.streamNames
          /\ disk = sc.disk
          /\ meta = sc.meta
          /\ prevMeta = sc.meta
    /\ workers \in 0..MaxWorkers
    /\ Idle
    /\ oldProducts = <<>>
    /\ newProducts = <<>>
    /\ diffed = NotDiffed
    /\ named = NotNamed
    /\ retainNum = 1
    /\ pruned = NotPruned
    /\ fileAge = NoAges
    /\ swept = NotSwept
    /\ tree = NoTree
    /\ configured = NoProduct
    /\ mu = NoGoroutines

(***************************************************************************)
(* buildIndex, main goroutine.                                             *)
(***************************************************************************)
\* An I/O failure, a tool failure or a cancellation may still happen in this run.
FaultAllowed == Cardinality(faults) < MaxFaults

\* Removals that hit the final paths instead of the staging paths.
RemoveStagedTargets(m) == Del(m, {replaces[i].NewPath : i \in 1..Len(replaces)})

\* The deferred os.Remove calls of buildIndex: every staging file written so far.
RemoveStaged(m) == Del(m, {replaces[i].OldPath : i \in 1..Len(replaces)})

\* buildIndex returns an error (or the process panics): the deferred removals
\* run and the invocation is over.
Abort(how, m) ==
    /\ meta' = RemoveStaged(m)
    /\ status' = [status EXCEPT ![pass] = how]
    /\ pc' = "idle"
    /\ si' = 0
    /\ ri' = 0
    /\ replaces' = <<>>
    /\ index' = <<>>
    /\ catalog' = <<>>
    /\ added' = <<>>
    /\ todoP' = {}
    /\ curP' = P1
    /\ todoV' = {}
    /\ jobs' = <<>>
    /\ wg' = 0
    /\ idle' = 0
    /\ running' = {}
    /\ err' = "nil"

\* A new invocation of build <path>.
BuildStart ==
    /\ UNCHANGED diffVars
    /\ pc = "idle"
    /\ pass < MaxPasses
    /\ pass' = pass + 1
    /\ status' = Append(status, "running")
    /\ pc' = "catalog"
    /\ si' = 1
    /\ ri' = 0
    /\ replaces' = <<>>
    /\ index' = <<>>
    /\ cancelled' = FALSE
    /\ prevMeta' = meta
    /\ log' = {}
    /\ faults' = {}
    /\ UNCHANGED <<streamNames, workers, disk, meta>>
    /\ UNCHANGED buildVars

\* A build that always starts from NewCatalog(nil).
LoadCatalogEmpty(m, streamName) == <<>>

\* catalog: the published catalog of the stream, or NewCatalog(nil).
LoadCatalog(m, streamName) ==
    IF CatalogPath(streamName) \in DOMAIN m THEN m[CatalogPath(streamName)].catalog
    ELSE <<>>

\* buildProductCatalog up to the loop over newProducts: read the catalog, discover
\* the products, start the workers, diff.
BpcStart ==
    /\ UNCHANGED diffVars
    /\ pc = "catalog"
    /\ LET streamName == streamNames[si]
           cat == LoadCatalog(meta, streamName)
           found == GetProducts(disk[streamName])
           diff == diffProducts(cat, found)
       IN \/ /\ GetProductsErr(disk[streamName]) # "nil"
             /\ Abort("error", meta)
             /\ UNCHANGED <<faults>>
          \/ /\ GetProductsErr(disk[streamName]) = "nil"
             /\ diff.panic
             /\ Abort("panic", meta)
             /\ UNCHANGED <<faults>>
          \/ /\ GetProductsErr(disk[streamName]) = "nil"
             /\ ~diff.panic
             /\ catalog' = cat
             /\ added' = diff.new
             /\ todoP' = DOMAIN diff.new
             /\ todoV' = {}
             /\ jobs' = <<>>
             /\ wg' = 0
             /\ idle' = Max(workers, 1)
             /\ running' = {}
             /\ err' = "nil"
             /\ pc' = "enqueue"
             /\ UNCHANGED <<meta, status, si, ri, replaces, index, curP, faults>>
    /\ UNCHANGED <<streamNames, workers, disk, pass, cancelled, prevMeta, log>>

\* A loop that leaves the catalog alone.
RegisterNothing(cat, id) == cat

\* _, ok := catalog.Products[id]; if !ok: the product found on disk is stored
\* with the attributes found there and an empty version map.
Register(cat, id) ==
    IF id \in DOMAIN cat THEN cat
    ELSE Put(cat, id, [Versions |-> <<>>, Attributes |-> "found"])

\* for id, p := range newProducts: the next product, registered in the catalog
\* with an empty version map when the catalog does not hold it.
NextProduct ==
    /\ UNCHANGED diffVars
    /\ pc = "enqueue"
    /\ todoV = {}
    /\ \E id \in todoP :
          /\ catalog' = Register(catalog, id)
          /\ curP' = id
          /\ todoV' = DOMAIN added[id].Versions
          /\ todoP' = todoP \ {id}
    /\ UNCHANGED <<streamNames, workers, disk, meta, pass, status, pc, si, ri, replaces,
                   index, added, jobs, wg, idle, running, err, cancelled, prevMeta,
                   log, faults>>

\* A queue with room for one job more than there are workers.
QueueCapOneMore == Max(workers, 1) + 1

\* cap(jobs)
QueueCap == Max(workers, 1)

\* wg.Add(1); jobs <- func() {...}: blocks while the channel is full.
Enqueue ==
    /\ UNCHANGED diffVars
    /\ pc = "enqueue"
    /\ Len(jobs) < QueueCap
    /\ \E v \in todoV :
          /\ jobs' = Append(jobs, <<curP, v>>)
          /\ todoV' = todoV \ {v}
    /\ wg' = wg + 1
    /\ UNCHANGED <<streamNames, workers, disk, meta, pass, status, pc, si, ri, replaces,
                   index, catalog, added, todoP, curP, idle, running, err, cancelled,
                   prevMeta, log, faults>>

\* A wait that returns while jobs are outstanding.
WaitReturnsEarly == TRUE

\* wg.Wait() returns: the counter is zero.
WaitReturns == wg = 0

\* wg.Wait() returned: buildProductCatalog returns the catalog (the deferred
\* close(jobs) ends the workers) and buildIndex stages it, or fails to write it.
StageCatalog ==
    /\ UNCHANGED diffVars
    /\ pc = "enqueue"
    /\ todoP = {}
    /\ todoV = {}
    /\ WaitReturns
    /\ LET streamName == streamNames[si]
       IN \/ /\ meta' = Put(meta, CatalogPathTemp(streamName),
                            CatalogFile(CatalogToJSON(catalog), pass))
             /\ replaces' = Append(replaces, [OldPath |-> CatalogPathTemp(streamName),
                                              NewPath |-> CatalogPath(streamName)])
             /\ index' = AddEntry(index, streamName, catalog)
             /\ si' = si + 1
             /\ pc' = IF si = Len(streamNames) THEN "index" ELSE "catalog"
             /\ idle' = 0
             /\ UNCHANGED <<status, ri, catalog, added, todoP, curP, todoV, jobs, wg,
                            running, err, faults>>
          \/ /\ FaultAllowed
             /\ \E m \in WriteJSONFileFails(meta, CatalogPathTemp(streamName), pass) :
                   Abort("error", m)
             /\ faults' = faults \cup {"publish"}
    /\ UNCHANGED <<streamNames, workers, disk, pass, cancelled, prevMeta, log>>

\* The index is staged after all catalogs, or fails to be written.
StageIndex ==
    /\ UNCHANGED diffVars
    /\ pc = "index"
    /\ \/ /\ meta' = Put(meta, IndexPathTemp, IndexFile(index, pass))
          /\ replaces' = Append(replaces, [OldPath |-> IndexPathTemp, NewPath |-> IndexPath])
          /\ pc' = "rename"
          /\ ri' = 1
          /\ UNCHANGED <<status, si, index, faults>>
          /\ UNCHANGED buildVars
       \/ /\ FaultAllowed
          /\ \E m \in WriteJSONFileFails(meta, IndexPathTemp, pass) : Abort("error", m)
          /\ faults' = faults \cup {"publish"}
    /\ UNCHANGED <<streamNames, workers, disk, pass, cancelled, prevMeta, log>>

\* os.Rename(r.OldPath, r.NewPath)
Renamed(m, r) == Del(Put(m, r.NewPath, m[r.OldPath]), {r.OldPath})

\* An order that moves the index into place before the catalogs.
RenameOrderIndexFirst(rs) == <<rs[Len(rs)]>> \o SubSeq(rs, 1, Len(rs) - 1)

\* for _, r := range replaces: the staged files are moved in the order they
\* were staged.
RenameOrder(rs) == rs

\* for _, r := range replaces: rename and chmod the next file; either may fail.
Rename ==
    /\ UNCHANGED diffVars
    /\ pc = "rename"
    /\ ri <= Len(replaces)
    /\ LET r == RenameOrder(replaces)[ri]
       IN \/ /\ r.OldPath \in DOMAIN meta
             /\ meta' = Renamed(meta, r)
             /\ ri' = ri + 1
             /\ UNCHANGED <<status, pc, si, replaces, index, faults>>
             /\ UNCHANGED buildVars
          \/ /\ r.OldPath \in DOMAIN meta
             /\ FaultAllowed
             /\ Abort("error", Renamed(meta, r))
             /\ faults' = faults \cup {"publish"}
          \/ /\ r.OldPath \notin DOMAIN meta \/ FaultAllowed
             /\ Abort("error", meta)
             /\ faults' = faults \cup {"publish"}
    /\ UNCHANGED <<streamNames, workers, disk, pass, cancelled, prevMeta, log>>

\* All files are in place: buildIndex returns nil.
Finish ==
    /\ UNCHANGED diffVars
    /\ pc = "rename"
    /\ ri > Len(replaces)
    /\ Abort("ok", meta)
    /\ UNCHANGED <<streamNames, workers, disk, pass, cancelled, prevMeta, log, faults>>

(***************************************************************************)
(* The workers of buildProductCatalog.                                     *)
(***************************************************************************)
Job(p, v) == [p |-> p, v |-> v, at |-> "delta", own |-> "nil", version |-> NoVersion]

\* case job, ok := <-jobs
WorkerTake ==
    /\ UNCHANGED diffVars
    /\ pc = "enqueue"
    /\ idle > 0
    /\ jobs # <<>>
    /\ running' = running \cup {Job(Head(jobs)[1], Head(jobs)[2])}
    /\ jobs' = Tail(jobs)
    /\ idle' = idle - 1
    /\ UNCHANGED <<streamNames, workers, disk, meta, pass, status, pc, si, ri, replaces,
                   index, catalog, added, todoP, curP, todoV, wg, err, cancelled,
                   prevMeta, log, faults>>

\* case <-ctx.Done(): return
WorkerStop ==
    /\ UNCHANGED diffVars
    /\ pc = "enqueue"
    /\ idle > 0
    /\ cancelled
    /\ idle' = idle - 1
    /\ UNCHANGED <<streamNames, workers, disk, meta, pass, status, pc, si, ri, replaces,
                   index, catalog, added, todoP, curP, todoV, jobs, wg, running, err,
                   cancelled, prevMeta, log, faults>>

\* A write that lands in the directory of the oldest version.
SetDirOfOldest(d, streamName, p, v, dir) == [d EXCEPT ![streamName][p][V1] = dir]

\* The directory of version v of product p is replaced by what the job wrote.
SetDir(d, streamName, p, v, dir) == [d EXCEPT ![streamName][p][v] = dir]

\* err = createDeltaFiles(ctx, rootDir, productPath, versionName): the deltas are
\* written one after the other; calcVCDiff fails when xdelta3 is missing or fails,
\* and when the context is cancelled.  The result is stored in the shared err.
JobDelta ==
    /\ UNCHANGED diffVars
    /\ pc = "enqueue"
    /\ \E j \in running :
          /\ j.at = "delta"
          /\ LET streamName == streamNames[si]
                 dir == disk[streamName][j.p][j.v]
                 targets == DeltaTargets(disk[streamName][j.p], j.v)
             IN \/ /\ GetProductErr(disk[streamName][j.p]) # "nil"
                   /\ err' = "delta-error"
                   /\ running' = (running \ {j}) \cup
                                 {[j EXCEPT !.at = "check", !.own = "delta-error"]}
                   /\ UNCHANGED <<disk, faults>>
                \/ /\ GetProductErr(disk[streamName][j.p]) = "nil"
                   /\ targets = {} \/ ~cancelled
                   /\ disk' = SetDir(disk, streamName, j.p, j.v, WriteDeltas(dir, targets))
                   /\ err' = "nil"
                   /\ running' = (running \ {j}) \cup {[j EXCEPT !.at = "check"]}
                   /\ UNCHANGED faults
                \/ /\ GetProductErr(disk[streamName][j.p]) = "nil"
                   /\ targets # {}
                   /\ cancelled \/ FaultAllowed
                   /\ \E written \in SUBSET targets :
                         /\ written # targets
                         /\ disk' = SetDir(disk, streamName, j.p, j.v,
                                           WriteDeltas(dir, written))
                   /\ err' = "delta-error"
                   /\ running' = (running \ {j}) \cup
                                 {[j EXCEPT !.at = "check", !.own = "delta-error"]}
                   /\ faults' = IF cancelled THEN faults ELSE faults \cup {"delta"}
    /\ UNCHANGED <<streamNames, workers, meta, pass, status, pc, si, ri, replaces, index,
                   catalog, added, todoP, curP, todoV, jobs, wg, idle, cancelled,
                   prevMeta, log>>

\* The job returns: defer wg.Done(), and the worker is back in its select.
JobEnds(j, outcome) ==
    /\ running' = running \ {j}
    /\ idle' = idle + 1
    /\ wg' = wg - 1
    /\ log' = log \cup {[stream |-> streamNames[si], p |-> j.p, v |-> j.v,
                         own |-> j.own, outcome |-> outcome]}

\* if err != nil { return }; version, err := GetVersion(..., true); the checksum
\* verification with its appends to SHA256SUMS.
JobCheck ==
    /\ UNCHANGED diffVars
    /\ pc = "enqueue"
    /\ \E j \in running :
          /\ j.at = "check"
          /\ LET streamName == streamNames[si]
                 dir == disk[streamName][j.p][j.v]
                 got == GetVersion(dir, TRUE)
             IN \/ /\ err # "nil"
                   /\ JobEnds(j, "delta-error")
                   /\ UNCHANGED <<disk, faults>>
                \/ /\ err = "nil"
                   /\ FaultAllowed
                   /\ JobEnds(j, "read-error")
                   /\ faults' = faults \cup {"io"}
                   /\ UNCHANGED disk
                \/ /\ err = "nil"
                   /\ got.err # "nil"
                   /\ JobEnds(j, "read-error")
                   /\ UNCHANGED <<disk, faults>>
                \/ /\ err = "nil"
                   /\ got.err = "nil"
                   /\ ~Verified(got.version)
                   /\ \E visited \in SUBSET Appendable(got.version) :
                         \E order \in Orders(visited) :
                            disk' = SetDir(disk, streamName, j.p, j.v,
                                           AppendLines(dir, got.version, order))
                   /\ JobEnds(j, "checksum-mismatch")
                   /\ UNCHANGED faults
                \/ /\ err = "nil"
                   /\ got.err = "nil"
                   /\ Verified(got.version)
                   /\ \E order \in Orders(IF got.version.HasChecksums
                                          THEN Appendable(got.version) ELSE {}) :
                         disk' = SetDir(disk, streamName, j.p, j.v,
                                        AppendLines(dir, got.version, order))
                   /\ running' = (running \ {j}) \cup
                                 {[j EXCEPT !.at = "insert", !.version = got.version]}
                   /\ UNCHANGED <<idle, wg, log, faults>>
    /\ UNCHANGED <<streamNames, workers, meta, pass, status, pc, si, ri, replaces, index,
                   catalog, added, todoP, curP, todoV, jobs, err, cancelled, prevMeta>>

\* mutex.Lock(); catalog.Products[id].Versions[versionName] = *version; mutex.Unlock()
JobInsert ==
    /\ UNCHANGED diffVars
    /\ pc = "enqueue"
    /\ \E j \in running :
          /\ j.at = "insert"
          /\ catalog' = [catalog EXCEPT ![j.p].Versions = Put(@, j.v, j.version)]
          /\ JobEnds(j, "inserted")
    /\ UNCHANGED <<streamNames, workers, disk, meta, pass, status, pc, si, ri, replaces,
                   index, added, todoP, curP, todoV, jobs, err, cancelled, prevMeta,
                   faults>>

\* The context is cancelled (signal or --timeout) while the catalog is built.
Cancel ==
    /\ UNCHANGED diffVars
    /\ pc = "enqueue"
    /\ ~cancelled
    /\ FaultAllowed
    /\ cancelled' = TRUE
    /\ faults' = faults \cup {"cancel"}
    /\ UNCHANGED <<streamNames, workers, disk, meta, pass, status, pc, si, ri, replaces,
                   index, catalog, added, todoP, curP, todoV, jobs, wg, idle, running,
                   err, prevMeta, log>>

Next ==
    \/ BuildStart
    \/ BpcStart
    \/ NextProduct
    \/ Enqueue
    \/ StageCatalog
    \/ StageIndex
    \/ Rename
    \/ Finish
    \/ WorkerTake
    \/ WorkerStop
    \/ JobDelta
    \/ JobCheck
    \/ JobInsert
    \/ Cancel

Spec == Init /\ [][Next]_vars

(***************************************************************************)
(* diffProducts on its own: the two product maps are drawn from the maps   *)
(* over two products and two version names, with two version contents.     *)
(***************************************************************************)
VersionContents ==
    {GetVersion(Dir({Lxd, Squashfs}), FALSE).version,
     GetVersion(Dir({Lxd, Qcow2}), FALSE).version}

VersionMaps == UNION {[vs -> VersionContents] : vs \in SUBSET {V1, V2}}

ProductMaps == UNION {[ps -> {[Versions |-> m] : m \in VersionMaps}] : ps \in SUBSET Products}

DiffInit ==
    /\ oldProducts \in ProductMaps
    /\ newProducts \in ProductMaps
    /\ diffed = NotDiffed
    /\ named = NotNamed
    /\ retainNum = 1
    /\ pruned = NotPruned
    /\ fileAge = NoAges
    /\ swept = NotSwept
    /\ tree = NoTree
    /\ configured = NoProduct
    /\ mu = NoGoroutines
    /\ streamNames = <<S1>>
    /\ disk = [s \in StreamUniverse |-> NoProducts]
    /\ meta = <<>>
    /\ prevMeta = <<>>
    /\ workers = 1
    /\ Idle

\* old, new := diffProducts(oldProducts, newProducts)
Diff ==
    /\ ~diffed.done
    /\ diffed' = [done |-> TRUE, result |-> diffProducts(oldProducts, newProducts)]
    /\ UNCHANGED <<streamNames, workers, disk, meta, pass, status, pc, si, ri, replaces,
                   index, catalog, added, todoP, curP, todoV, jobs, wg, idle, running,
                   err, cancelled, prevMeta, log, faults, oldProducts, newProducts,
                   named, retainNum, pruned, fileAge, swept, tree, configured, mu>>

DiffNext == Diff

SpecDiff == DiffInit /\ [][DiffNext]_vars

(***************************************************************************)
(* Delta names on their own: createDeltaFiles names the delta of a rootfs   *)
(* item against a predecessor, GetItem classifies the file of that name.   *)
(***************************************************************************)
RootfsNames ==
    {<<"rootfs", "squashfs">>, <<"disk", "qcow2">>, <<"root", "squashfs">>,
     <<"root", "fs", "squashfs">>, <<"disk", "kvm", "qcow2">>, <<"image", "qcow2">>}

\* Version directory names: v1, 2024_01_01, 20240505_1212, 1.0, 2.0, .v2.
PredecessorNames ==
    {<<"v1">>, <<"2024_01_01">>, <<"20240505_1212">>, <<"1", "0">>, <<"2", "0">>,
     <<"", "v2">>}

NamesInit ==
    /\ named \in {[NotNamed EXCEPT !.itemName = n, !.preName = v, !.at = "item"] :
                    n \in RootfsNames, v \in PredecessorNames}
    /\ oldProducts = <<>>
    /\ newProducts = <<>>
    /\ diffed = NotDiffed
    /\ retainNum = 1
    /\ pruned = NotPruned
    /\ fileAge = NoAges
    /\ swept = NotSwept
    /\ tree = NoTree
    /\ configured = NoProduct
    /\ mu = NoGoroutines
    /\ streamNames = <<S1>>
    /\ disk = [s \in StreamUniverse |-> NoProducts]
    /\ meta = <<>>
    /\ prevMeta = <<>>
    /\ workers = 1
    /\ Idle

\* createDeltaFiles: vcdiff := fmt.Sprintf("%s.%s.%s", prefix, preName, suffix) for
\* an item of type squashfs or disk-kvm.img.
NameDelta ==
    /\ named.at = "item"
    /\ ItemFtype(named.itemName) \in {ItemTypeDiskKVM, ItemTypeSquashfs}
    /\ named' = [named EXCEPT
                    !.at = "delta",
                    !.vcdiff = DeltaName(named.itemName, ItemFtype(named.itemName),
                                         named.preName)]
    /\ UNCHANGED <<streamNames, workers, disk, meta, pass, status, pc, si, ri, replaces,
                   index, catalog, added, todoP, curP, todoV, jobs, wg, idle, running,
                   err, cancelled, prevMeta, log, faults, oldProducts, newProducts,
                   diffed, retainNum, pruned, fileAge, swept, tree, configured, mu>>

\* GetItem on the file createDeltaFiles wrote under that name.
ClassifyDelta ==
    /\ named.at = "delta"
    /\ named' = [named EXCEPT
                    !.at = "classified",
                    !.Ftype = GetItem(named.vcdiff, DeltaContent("data", "data"), FALSE).Ftype,
                    !.DeltaBase =
                        GetItem(named.vcdiff, DeltaContent("data", "data"), FALSE).DeltaBase]
    /\ UNCHANGED <<streamNames, workers, disk, meta, pass, status, pc, si, ri, replaces,
                   index, catalog, added, todoP, curP, todoV, jobs, wg, idle, running,
                   err, cancelled, prevMeta, log, faults, oldProducts, newProducts,
                   diffed, retainNum, pruned, fileAge, swept, tree, configured, mu>>

NamesNext == NameDelta \/ ClassifyDelta

SpecNames == NamesInit /\ [][NamesNext]_vars

(***************************************************************************)
(* pruneStreamProductVersions(rootDir, streamVersion, streamName,          *)
(* retainNum) on its own.  The versions of a product are taken from the     *)
(* published catalog and sorted; all but the last retainNum are removed     *)
(* from the disk and from the catalog, and the catalog and the index are   *)
(* rewritten.                                                              *)
(***************************************************************************)
\* Largest value of --retain-builds that is explored (0..MaxRetain).
MaxRetain == 3

\* The last n names of the sorted names.
LastVersions(names, n) ==
    LET sorted == SortVersions(names)
    IN {sorted[i] : i \in {j \in 1..Len(sorted) : j > Len(sorted) - n}}

\* A retention that keeps one version more than asked.
RetainedVersionsOneMore(names, n) == LastVersions(names, n + 1)

\* The versions that are retained: the last n of the sorted names.
RetainedVersions(names, n) == LastVersions(names, n)

\* A selection over the complete versions found on the disk.
DiscardedVersionsOnDisk(pdirs, product, n) ==
    DOMAIN GetProduct(pdirs).Versions
        \ RetainedVersions(DOMAIN GetProduct(pdirs).Versions, n)

\* A selection that also discards what is on the disk and incomplete.
DiscardedVersionsAndIncomplete(pdirs, product, n) ==
    (DOMAIN product.Versions \ RetainedVersions(DOMAIN product.Versions, n))
        \cup {v \in DOMAIN pdirs :
                 pdirs[v].exists /\ GetVersion(pdirs[v], FALSE).err = "incomplete"}

\* The versions of a catalog product that are discarded; pdirs are the version
\* directories of the product.
DiscardedVersions(pdirs, product, n) ==
    DOMAIN product.Versions \ RetainedVersions(DOMAIN product.Versions, n)

\* os.RemoveAll on the directory of every discarded version.
PrunedDisk(sdirs, cat, n) ==
    [p \in DOMAIN sdirs |->
        IF p \in DOMAIN cat
        THEN [v \in DOMAIN sdirs[p] |->
                IF v \in DiscardedVersions(sdirs[p], cat[p], n) THEN NoDir
                ELSE sdirs[p][v]]
        ELSE sdirs[p]]

\* A catalog that is written back as it was read.
PrunedCatalogAsRead(sdirs, cat, n) == cat

\* The catalog without the discarded versions.
PrunedCatalog(sdirs, cat, n) ==
    [p \in DOMAIN cat |->
        [cat[p] EXCEPT !.Versions =
            [v \in DOMAIN cat[p].Versions \ DiscardedVersions(sdirs[p], cat[p], n) |->
                cat[p].Versions[v]]]]

PruneDirs == {NoDir, Dir({Lxd}), Dir({Lxd, Squashfs})}

PruneDisks ==
    {[s \in StreamUniverse |->
        [p \in Products |->
            [v \in VersionNames |->
                IF s = S1 /\ p = P1 /\ v = V1 THEN a
                ELSE IF s = S1 /\ p = P1 /\ v = V2 THEN b
                ELSE IF s = S1 /\ p = P1 /\ v = V3 THEN c
                ELSE IF s = S1 /\ p = P2 /\ v = V1 THEN d
                ELSE NoDir]]] :
     a \in PruneDirs, b \in PruneDirs, c \in PruneDirs, d \in SmallDirs}

\* The version sets of product P1 that the published catalog may reference.
PruneRefs(d) == SUBSET {v \in {V1, V2, V3} : Referable(d[S1][P1][v])}

\* No catalog, or the catalog of an earlier build that references some versions
\* of product P1, or no product at all; versions may have been deposited or
\* removed since.
PruneScenarios ==
    UNION {{Fresh(<<S1>>, d)} \cup
           {[streamNames |-> <<S1>>, disk |-> d,
             meta |-> PublishedMeta(d, IF vs = {} THEN <<>> ELSE (P1 :> vs))] :
              vs \in PruneRefs(d)} :
           d \in PruneDisks}

PruneInit ==
    /\ \E sc \in PruneScenarios :
          /\ streamNames = sc.streamNames
          /\ disk = sc.disk
          /\ meta = sc.meta
          /\ prevMeta = sc.meta
    /\ retainNum \in 0..MaxRetain
    /\ pruned = NotPruned
    /\ fileAge = NoAges
    /\ swept = NotSwept
    /\ tree = NoTree
    /\ configured = NoProduct
    /\ mu = NoGoroutines
    /\ named = NotNamed
    /\ oldProducts = <<>>
    /\ newProducts = <<>>
    /\ diffed = NotDiffed
    /\ workers = 1
    /\ Idle

\* An argument check that accepts every number.
ValidRetainNumAny(n) == TRUE

\* "At least 1 product version must be retained" otherwise.
ValidRetainNum(n) == n >= 1

\* err := pruneStreamProductVersions(rootDir, "v1", streamName, retainNum)
PruneStreamProductVersions ==
    /\ ~pruned.done
    /\ LET streamName == streamNames[1]
           cat == LoadCatalog(meta, streamName)
           kept == PrunedCatalog(disk[streamName], cat, retainNum)
       IN IF ~ValidRetainNum(retainNum)
          THEN /\ pruned' = [done |-> TRUE, err |-> "invalid-arg", before |-> disk]
               /\ UNCHANGED <<disk, meta>>
          ELSE IF CatalogPath(streamName) \notin DOMAIN meta
          THEN /\ pruned' = [done |-> TRUE, err |-> "nil", before |-> disk]
               /\ UNCHANGED <<disk, meta>>
          ELSE /\ pruned' = [done |-> TRUE, err |-> "nil", before |-> disk]
               /\ disk' = [disk EXCEPT ![streamName] =
                                       PrunedDisk(disk[streamName], cat, retainNum)]
               /\ meta' = Put(Put(meta, CatalogPath(streamName),
                                       CatalogFile(kept, pass + 1)),
                              IndexPath,
                              IndexFile(AddEntry(<<>>, streamName, kept), pass + 1))
    /\ prevMeta' = meta
    /\ UNCHANGED <<streamNames, workers, pass, status, pc, si, ri, replaces, index,
                   catalog, added, todoP, curP, todoV, jobs, wg, idle, running, err,
                   cancelled, log, faults, oldProducts, newProducts, diffed, named,
                   retainNum, fileAge, swept, tree, configured, mu>>

PruneNext == PruneStreamProductVersions

SpecPrune == PruneInit /\ [][PruneNext]_vars

(***************************************************************************)
(* pruneDanglingProductVersions(rootDir, streamVersion, streamName) on its  *)
(* own.  For every product of the published catalog, the version           *)
(* directories that the catalog does not reference are removed when their  *)
(* youngest file is older than the freshness window.                       *)
(***************************************************************************)
\* Hours; unreferenced versions younger than this are kept.
FreshnessWindow == 6

\* Hours since the youngest file of a version directory was modified.
FileAges == {0, 5, 24}

\* A window that no age is outside of.
IsStaleNever(age) == FALSE

\* The youngest file is older than the freshness window.
IsStale(age) == age > FreshnessWindow

\* A listing of every version directory, referenced or not.
UnreferencedVersionsAll(pdirs, product) == {v \in DOMAIN pdirs : pdirs[v].exists}

\* The version directories of a product that its catalog entry does not reference.
UnreferencedVersions(pdirs, product) ==
    {v \in DOMAIN pdirs : pdirs[v].exists /\ v \notin DOMAIN product.Versions}

\* The unreferenced versions that are removed.
DanglingVersions(pdirs, product, ages) ==
    {v \in UnreferencedVersions(pdirs, product) : IsStale(ages[v])}

\* A sweep that takes a product without a catalog entry as one without versions.
SweptDiskEveryProduct(sdirs, cat, ages) ==
    [p \in DOMAIN sdirs |->
        [v \in DOMAIN sdirs[p] |->
            IF v \in DanglingVersions(sdirs[p],
                                      IF p \in DOMAIN cat THEN cat[p] ELSE [Versions |-> <<>>],
                                      ages[p])
            THEN NoDir
            ELSE sdirs[p][v]]]

\* os.RemoveAll on the directory of every dangling version of the products of
\* the catalog.
SweptDisk(sdirs, cat, ages) ==
    [p \in DOMAIN sdirs |->
        IF p \in DOMAIN cat
        THEN [v \in DOMAIN sdirs[p] |->
                IF v \in DanglingVersions(sdirs[p], cat[p], ages[p]) THEN NoDir
                ELSE sdirs[p][v]]
        ELSE sdirs[p]]

\* The ages the files of the image directories d may have.
AgesOf(d) ==
    {ages \in [Products -> [VersionNames -> FileAges]] :
        \A p \in Products : \A v \in VersionNames :
            ~d[S1][p][v].exists => ages[p][v] = 0}

DanglingInit ==
    /\ \E sc \in PruneScenarios :
          /\ streamNames = sc.streamNames
          /\ disk = sc.disk
          /\ meta = sc.meta
          /\ prevMeta = sc.meta
          /\ fileAge \in AgesOf(sc.disk)
    /\ swept = NotSwept
    /\ tree = NoTree
    /\ configured = NoProduct
    /\ mu = NoGoroutines
    /\ retainNum = 1
    /\ pruned = NotPruned
    /\ named = NotNamed
    /\ oldProducts = <<>>
    /\ newProducts = <<>>
    /\ diffed = NotDiffed
    /\ workers = 1
    /\ Idle

\* err := pruneDanglingProductVersions(rootDir, "v1", streamName)
PruneDanglingProductVersions ==
    /\ ~swept.done
    /\ swept' = [done |-> TRUE, before |-> disk]
    /\ LET streamName == streamNames[1]
       IN IF CatalogPath(streamName) \notin DOMAIN meta
          THEN UNCHANGED disk
          ELSE disk' = [disk EXCEPT ![streamName] =
                          SweptDisk(disk[streamName], LoadCatalog(meta, streamName),
                                    fileAge)]
    /\ prevMeta' = meta
    /\ UNCHANGED <<streamNames, workers, meta, pass, status, pc, si, ri, replaces,
                   index, catalog, added, todoP, curP, todoV, jobs, wg, idle, running,
                   err, cancelled, log, faults, oldProducts, newProducts, diffed,
                   named, retainNum, pruned, fileAge, tree, configured, mu>>

DanglingNext == PruneDanglingProductVersions

SpecDangling == DanglingInit /\ [][DanglingNext]_vars

(***************************************************************************)
(* pruneEmptyDirs(rootDir, keepRoot) on its own, in a temporary directory. *)
(* A path is the sequence of its elements between separators, relative to  *)
(* the temporary directory ("//root/./x" is <<"", "root", ".", "x">>).       *)
(***************************************************************************)
RECURSIVE CleanFrom(_, _, _)
\* filepath.Clean, element by element: empty elements and "." are dropped,
\* ".." drops the element before it.
CleanFrom(path, i, done) ==
    IF i > Len(path) THEN done
    ELSE IF path[i] \in {"", "."} THEN CleanFrom(path, i + 1, done)
    ELSE IF path[i] = ".."
         THEN CleanFrom(path, i + 1,
                        IF done = <<>> THEN done ELSE SubSeq(done, 1, Len(done) - 1))
    ELSE CleanFrom(path, i + 1, Append(done, path[i]))

\* A path that is used as it is spelled.
CleanAsSpelled(path) == path

\* filepath.Clean(path)
Clean(path) == CleanFrom(path, 1, <<>>)

\* a is b or an ancestor of b.
IsWithin(a, b) == Len(a) <= Len(b) /\ SubSeq(b, 1, Len(a)) = a

\* The directory holds a regular file, directly or in a subdirectory.
HoldsFile(d, files) == \E f \in files : IsWithin(d, f) /\ f # d

\* A selection that looks at the files directly in the directory only.
EmptyDirsShallow(dirs, files, root, keepRoot) ==
    {d \in dirs :
        /\ IsWithin(root, d)
        /\ ~\E f \in files : SubSeq(f, 1, Len(f) - 1) = d
        /\ (d = root => ~keepRoot)}

\* The directories that are removed: those at or beneath root that hold no
\* file; root itself only when keepRoot is false.
EmptyDirs(dirs, files, root, keepRoot) ==
    {d \in dirs :
        /\ IsWithin(root, d)
        /\ ~HoldsFile(d, files)
        /\ (d = root => ~keepRoot)}

\* Directory trees inside the temporary directory.
TreeDirs ==
    {ds \in SUBSET {<<"root">>, <<"root", "parent">>, <<"root", "parent", "child">>,
                    <<"root", "other">>, <<"side">>} :
        /\ <<"root">> \in ds
        /\ \A d \in ds : Len(d) > 1 => SubSeq(d, 1, Len(d) - 1) \in ds}

\* The regular files of a tree: at most one, named "file", in each directory.
TreeFiles(ds) == SUBSET {Append(d, "file") : d \in ds}

\* Spellings of the rootDir argument.
RootSpellings ==
    {<<"root">>,
     <<"", "root", "", "">>,
     <<".", "root", ".", ".", ".">>,
     <<"root", "..", "root">>,
     <<"root", "parent">>,
     <<"root", "parent", "..", ".", "", "parent">>}

\* The directory that a spelling of rootDir denotes.
Denoted(path) ==
    IF path \in {<<"root", "parent">>, <<"root", "parent", "..", ".", "", "parent">>}
    THEN <<"root", "parent">>
    ELSE <<"root">>

EmptyDirsInit ==
    /\ \E ds \in TreeDirs : \E fs \in TreeFiles(ds) :
       \E root \in {r \in RootSpellings : Denoted(r) \in ds} : \E keep \in BOOLEAN :
          tree = [dirs |-> ds, files |-> fs, rootDir |-> root, keepRoot |-> keep,
                  done |-> FALSE, before |-> ds]
    /\ streamNames = <<S1>>
    /\ disk = [s \in StreamUniverse |-> NoProducts]
    /\ meta = <<>>
    /\ prevMeta = <<>>
    /\ fileAge = NoAges
    /\ swept = NotSwept
    /\ configured = NoProduct
    /\ mu = NoGoroutines
    /\ retainNum = 1
    /\ pruned = NotPruned
    /\ named = NotNamed
    /\ oldProducts = <<>>
    /\ newProducts = <<>>
    /\ diffed = NotDiffed
    /\ workers = 1
    /\ Idle

\* err := pruneEmptyDirs(rootDir, keepRoot)
PruneEmptyDirs ==
    /\ ~tree.done
    /\ tree' = [tree EXCEPT
                  !.done = TRUE,
                  !.dirs = @ \ EmptyDirs(tree.dirs, tree.files, Clean(tree.rootDir),
                                         tree.keepRoot)]
    /\ UNCHANGED <<streamNames, workers, disk, meta, pass, status, pc, si, ri, replaces,
                   index, catalog, added, todoP, curP, todoV, jobs, wg, idle, running,
                   err, cancelled, prevMeta, log, faults, oldProducts, newProducts,
                   diffed, named, retainNum, pruned, fileAge, swept, configured, mu>>

EmptyDirsNext == PruneEmptyDirs

SpecEmptyDirs == EmptyDirsInit /\ [][EmptyDirsNext]_vars

(***************************************************************************)
(* GetProduct on its own: the requirements and the aliases of a product    *)
(* whose versions hold image.yaml files.  The product is                   *)
(* images/ubuntu/noble/amd64/<variant>; an alias is the sequence of the    *)
(* elements path.Join joins, a comma-delimited string the sequence of its  *)
(* parts.                                                                  *)
(***************************************************************************)
\* version.ImageConfig == nil: no image.yaml, or one without "simplestreams".
NoImageConfig == [set |-> FALSE, ReleaseAliases |-> <<>>, Requirements |-> <<>>,
                  HasRequirements |-> FALSE]

ImageConfig(releaseAliases, hasRequirements, requirements) ==
    [set |-> TRUE, ReleaseAliases |-> releaseAliases, Requirements |-> requirements,
     HasRequirements |-> hasRequirements]

\* The image configurations of the versions.
ImageConfigs ==
    {NoImageConfig} \cup
    {ImageConfig(ra, rq[1], rq[2]) :
        ra \in {<<>>, ("noble" :> <<"24.04", "", "lts">>), ("focal" :> <<"20.04">>),
                ("noble" :> <<"n">>)},
        rq \in {<<FALSE, <<>>>>, <<TRUE, ("secureboot" :> "false")>>,
                <<TRUE, ("cgroup" :> "v2")>>}}

\* The aliases one image configuration adds to a product of the release.
ConfigAliases(config, Distro, Release, Variant) ==
    IF ~config.set \/ Release \notin DOMAIN config.ReleaseAliases THEN <<>>
    ELSE LET tokens == SelectSeq(config.ReleaseAliases[Release], LAMBDA a : a # "")
             RECURSIVE Expand(_)
             Expand(i) ==
                 IF i > Len(tokens) THEN <<>>
                 ELSE <<<<Distro, tokens[i], Variant>>>>
                      \o (IF Variant = "default" THEN <<<<Distro, tokens[i]>>>> ELSE <<>>)
                      \o Expand(i + 1)
         IN Expand(1)

\* aliases := []string{path.Join(p.Distro, p.Release, p.Variant)}, and the
\* shorter one for the default variant.
DefaultAliases(Distro, Release, Variant) ==
    <<<<Distro, Release, Variant>>>>
    \o (IF Variant = "default" THEN <<<<Distro, Release>>>> ELSE <<>>)

RECURSIVE RequirementsUpTo(_, _)
\* p.Requirements after the first n directories os.ReadDir lists (sorted by
\* name): every complete version with requirements overwrites them.
RequirementsUpTo(versions, n) ==
    IF n = 0 THEN <<>>
    ELSE IF versions[n].complete /\ versions[n].config.set
              /\ versions[n].config.HasRequirements
         THEN versions[n].config.Requirements
         ELSE RequirementsUpTo(versions, n - 1)

RECURSIVE AliasesUpTo(_, _, _, _, _)
\* aliases after the first n directories: every complete version appends the
\* aliases of its image configuration.
AliasesUpTo(versions, n, Distro, Release, Variant) ==
    IF n = 0 THEN DefaultAliases(Distro, Release, Variant)
    ELSE AliasesUpTo(versions, n - 1, Distro, Release, Variant)
         \o (IF versions[n].complete
             THEN ConfigAliases(versions[n].config, Distro, Release, Variant)
             ELSE <<>>)

\* The version directories of the product, in the order of their names.
ConfiguredVersions ==
    [1..3 -> [complete : BOOLEAN, config : ImageConfigs]]

ConfigInit ==
    /\ \E vs \in ConfiguredVersions : \E variant \in {"cloud", "default"} :
          configured = [NoProduct EXCEPT !.Variant = variant, !.versions = vs]
    /\ mu = NoGoroutines
    /\ streamNames = <<S1>>
    /\ disk = [s \in StreamUniverse |-> NoProducts]
    /\ meta = <<>>
    /\ prevMeta = <<>>
    /\ fileAge = NoAges
    /\ swept = NotSwept
    /\ tree = NoTree
    /\ retainNum = 1
    /\ pruned = NotPruned
    /\ named = NotNamed
    /\ oldProducts = <<>>
    /\ newProducts = <<>>
    /\ diffed = NotDiffed
    /\ workers = 1
    /\ Idle

\* product, err := stream.GetProduct(rootDir, productRelPath)
ApplyImageConfigs ==
    /\ ~configured.done
    /\ configured' = [configured EXCEPT
                        !.done = TRUE,
                        !.Requirements = RequirementsUpTo(configured.versions, 3),
                        !.Aliases = AliasesUpTo(configured.versions, 3, "ubuntu",
                                                "noble", configured.Variant)]
    /\ UNCHANGED <<streamNames, workers, disk, meta, pass, status, pc, si, ri, replaces,
                   index, catalog, added, todoP, curP, todoV, jobs, wg, idle, running,
                   err, cancelled, prevMeta, log, faults, oldProducts, newProducts,
                   diffed, named, retainNum, pruned, fileAge, swept, tree, mu>>

ConfigNext == ApplyImageConfigs

SpecConfig == ConfigInit /\ [][ConfigNext]_vars

(***************************************************************************)
(* The catalog mutex of buildProductCatalog: the producer loop and the     *)
(* workers as goroutines whose steps are the single accesses to the maps   *)
(* catalog.Products and Product.Versions and the operations of the mutex.  *)
(***************************************************************************)
\* The goroutines of the worker pool.
MutexWorkers == 1..MaxWorkers

\* The goroutines as holders of the mutex.
Worker(w) == <<"worker", w>>

\* for id, p := range newProducts: whether the catalog knows the product, and
\* the number of its new versions.
NewProductShapes == [known : BOOLEAN, versions : {1, 2}]

NewProductLists ==
    {<<a>> : a \in NewProductShapes} \cup
    {<<a, b>> : a \in NewProductShapes, b \in NewProductShapes}

\* One access to a map: the goroutine, the map, read or write, whether the
\* goroutine holds the mutex, and whether a worker is executing a job.
Access(by, map, kind) ==
    [by |-> by, map |-> map, kind |-> kind, held |-> mu.mutex = by,
     busy |-> \E w \in MutexWorkers : mu.worker[w] # "idle"]

\* A mutex that excludes nobody.
LockFreeAlways(by) == TRUE

\* mutex.Lock() returns once nobody holds the mutex.
LockFree(by) == mu.mutex = Unlocked

MutexInit ==
    /\ \E ps \in NewProductLists :
          mu = [mutex |-> Unlocked, main |-> "lookup", newProducts |-> ps, jobs |-> 0,
                worker |-> [w \in MutexWorkers |-> "idle"], accesses |-> {}]
    /\ configured = NoProduct
    /\ streamNames = <<S1>>
    /\ disk = [s \in StreamUniverse |-> NoProducts]
    /\ meta = <<>>
    /\ prevMeta = <<>>
    /\ fileAge = NoAges
    /\ swept = NotSwept
    /\ tree = NoTree
    /\ retainNum = 1
    /\ pruned = NotPruned
    /\ named = NotNamed
    /\ oldProducts = <<>>
    /\ newProducts = <<>>
    /\ diffed = NotDiffed
    /\ workers = MaxWorkers
    /\ Idle

MutexFrame ==
    UNCHANGED <<streamNames, workers, disk, meta, pass, status, pc, si, ri, replaces,
                index, catalog, added, todoP, curP, todoV, jobs, wg, idle, running,
                err, cancelled, prevMeta, log, faults, oldProducts, newProducts,
                diffed, named, retainNum, pruned, fileAge, swept, tree, configured>>

\* _, ok := catalog.Products[id]
MainLookup ==
    /\ mu.main = "lookup"
    /\ mu.newProducts # <<>>
    /\ mu' = [mu EXCEPT
                !.accesses = @ \cup {Access(Main, "Products", "read")},
                !.main = IF Head(mu.newProducts).known THEN "send" ELSE "lock"]
    /\ MutexFrame

\* mutex.Lock() of the producer loop.
MainLock ==
    /\ mu.main = "lock"
    /\ LockFree(Main)
    /\ mu' = [mu EXCEPT !.mutex = Main, !.main = "store"]
    /\ MutexFrame

\* catalog.Products[id] = product
MainStore ==
    /\ mu.main = "store"
    /\ mu' = [mu EXCEPT
                !.accesses = @ \cup {Access(Main, "Products", "write")},
                !.main = "unlock"]
    /\ MutexFrame

\* mutex.Unlock() of the producer loop.
MainUnlock ==
    /\ mu.main = "unlock"
    /\ mu' = [mu EXCEPT !.mutex = IF @ = Main THEN Unlocked ELSE @, !.main = "send"]
    /\ MutexFrame

\* wg.Add(1); jobs <- func() {...} for the next version of the product; after
\* the last one, the next product.
MainSend ==
    /\ mu.main = "send"
    /\ LET p == Head(mu.newProducts) IN
          \/ /\ p.versions > 0
             /\ mu.jobs < QueueCap
             /\ mu' = [mu EXCEPT !.jobs = @ + 1,
                                 !.newProducts[1].versions = @ - 1]
          \/ /\ p.versions = 0
             /\ mu' = [mu EXCEPT
                         !.newProducts = Tail(@),
                         !.main = IF Tail(mu.newProducts) = <<>> THEN "wait"
                                  ELSE "lookup"]
    /\ MutexFrame

\* wg.Wait()
MainWait ==
    /\ mu.main = "wait"
    /\ mu.jobs = 0
    /\ \A w \in MutexWorkers : mu.worker[w] = "idle"
    /\ mu' = [mu EXCEPT !.main = "done"]
    /\ MutexFrame

\* case job, ok := <-jobs: job() starts with createDeltaFiles, GetVersion and
\* the verification of the checksums.
MutexWorkerTake(w) ==
    /\ mu.worker[w] = "idle"
    /\ mu.jobs > 0
    /\ mu' = [mu EXCEPT !.jobs = @ - 1, !.worker[w] = "work"]
    /\ MutexFrame

\* The job returns early (an error, a checksum mismatch), or it reaches
\* mutex.Lock().
MutexWorkerWork(w) ==
    /\ mu.worker[w] = "work"
    /\ \E next \in {"idle", "lock"} : mu' = [mu EXCEPT !.worker[w] = next]
    /\ MutexFrame

\* mutex.Lock() of the job.
MutexWorkerLock(w) ==
    /\ mu.worker[w] = "lock"
    /\ LockFree(Worker(w))
    /\ mu' = [mu EXCEPT !.mutex = Worker(w), !.worker[w] = "insert"]
    /\ MutexFrame

\* catalog.Products[id].Versions[versionName] = *version
MutexWorkerInsert(w) ==
    /\ mu.worker[w] = "insert"
    /\ mu' = [mu EXCEPT
                !.accesses = @ \cup {Access(Worker(w), "Products", "read"),
                                     Access(Worker(w), "Versions", "write")},
                !.worker[w] = "unlock"]
    /\ MutexFrame

\* mutex.Unlock() of the job; wg.Done().
MutexWorkerUnlock(w) ==
    /\ mu.worker[w] = "unlock"
    /\ mu' = [mu EXCEPT !.mutex = IF @ = Worker(w) THEN Unlocked ELSE @, !.worker[w] = "idle"]
    /\ MutexFrame

MutexNext ==
    \/ MainLookup
    \/ MainLock
    \/ MainStore
    \/ MainUnlock
    \/ MainSend
    \/ MainWait
    \/ \E w \in MutexWorkers : MutexWorkerTake(w)
    \/ \E w \in MutexWorkers : MutexWorkerWork(w)
    \/ \E w \in MutexWorkers : MutexWorkerLock(w)
    \/ \E w \in MutexWorkers : MutexWorkerInsert(w)
    \/ \E w \in MutexWorkers : MutexWorkerUnlock(w)

SpecMutex == MutexInit /\ [][MutexNext]_vars

(***************************************************************************)
(* buildIndex over stream directories that hold no product, for lists of   *)
(* stream names that repeat a name or name a stream "index".               *)
(***************************************************************************)
IndexStream == <<"index">>

PathStreamNames == {S1, S2, IndexStream}

StreamNameLists ==
    {<<a>> : a \in PathStreamNames} \cup
    {<<a, b>> : a \in PathStreamNames, b \in PathStreamNames}

PathsInit ==
    /\ streamNames \in StreamNameLists
    /\ disk = [s \in PathStreamNames |-> NoProducts]
    /\ meta = <<>>
    /\ prevMeta = <<>>
    /\ workers = 1
    /\ Idle
    /\ oldProducts = <<>>
    /\ newProducts = <<>>
    /\ diffed = NotDiffed
    /\ named = NotNamed
    /\ retainNum = 1
    /\ pruned = NotPruned
    /\ fileAge = NoAges
    /\ swept = NotSwept
    /\ tree = NoTree
    /\ configured = NoProduct
    /\ mu = NoGoroutines

PathsNext ==
    \/ BuildStart
    \/ BpcStart
    \/ StageCatalog
    \/ StageIndex
    \/ Rename
    \/ Finish

SpecPaths == PathsInit /\ [][PathsNext]_vars

(***************************************************************************)
(* Properties.                                                             *)
(***************************************************************************)
Streams == {streamNames[i] : i \in 1..Len(streamNames)}

\* The (product, version) pairs a catalog references.
Refs(cat) == UNION {{<<p, v>> : v \in DOMAIN cat[p].Versions} : p \in DOMAIN cat}

\* The catalog of stream s that is in place in the metadata directory m.
InPlace(m, s) == IF CatalogPath(s) \in DOMAIN m THEN m[CatalogPath(s)].catalog ELSE <<>>

\* The invocation of build number n has ended.
Ended(n) == pass = n /\ pc = "idle"

\* The directory holds lxd.tar.xz and at least one *.squashfs or *.qcow2 file.
HoldsMetadataAndRootfs(dir) ==
    /\ dir.exists
    /\ <<"lxd", "tar", "xz">> \in DOMAIN dir.files
    /\ \E n \in DOMAIN dir.files : n[Len(n)] \in {"squashfs", "qcow2"}

\* The catalogs of stream s that the build holds or has written: in memory, in
\* its staging file and in place.
CatalogsOf(s) ==
    {meta[f].catalog : f \in {CatalogPath(s), CatalogPathTemp(s)} \cap DOMAIN meta}
    \cup (IF pc = "enqueue" /\ streamNames[si] = s THEN {catalog} ELSE {})

\* C1: a version directory is returned by GetVersion, listed by GetProduct or
\* referenced by a catalog of the build only if it holds lxd.tar.xz and at least
\* one *.squashfs or *.qcow2 file (lxd.tar.xz alone, a rootfs alone, or
\* lxd.tar.xz with root.tar.xz are never surfaced).
C1_OnlyCompleteVersionsSurface ==
    \A s \in StreamUniverse, p \in Products :
        /\ \A v \in DOMAIN GetProduct(disk[s][p]).Versions :
              HoldsMetadataAndRootfs(disk[s][p][v])
        /\ \A v \in VersionNames :
              /\ GetVersion(disk[s][p][v], FALSE).err = "nil"
                    => HoldsMetadataAndRootfs(disk[s][p][v])
              /\ (/\ s \in Streams
                  /\ disk[s][p][v].exists
                  /\ \E cat \in CatalogsOf(s) : <<p, v>> \in Refs(cat))
                    => HoldsMetadataAndRootfs(disk[s][p][v])

\* A build published a catalog with a version of a product while another version
\* directory of that product holds only lxd.tar.xz and root.tar.xz.
C1_Witness ==
    /\ pass >= 1
    /\ Ended(pass)
    /\ status[pass] = "ok"
    /\ \E s \in Streams, p \in Products, v, w \in VersionNames :
          /\ DOMAIN disk[s][p][v].files = {<<"lxd", "tar", "xz">>, <<"root", "tar", "xz">>}
          /\ meta[CatalogPath(s)].run = pass
          /\ <<p, w>> \in Refs(InPlace(meta, s))
          /\ <<p, v>> \notin Refs(InPlace(meta, s))

\* The version directory has a SHA256SUMS file and its metadata file or one of
\* its rootfs files has no line in it.
LacksEntry(dir) ==
    /\ dir.hasSums
    /\ \E n \in DOMAIN dir.files :
          /\ n = <<"lxd", "tar", "xz">> \/ n[Len(n)] \in {"squashfs", "qcow2"}
          /\ \A i \in 1..Len(dir.sums) :
                dir.sums[i].filename = n => dir.sums[i].checksum = <<>>

Inserted(p, v) == p \in DOMAIN catalog /\ v \in DOMAIN catalog[p].Versions

\* The SHA256SUMS file of the version directory lists, for one of its files, a
\* checksum that is not the SHA-256 of the file.
ListsWrongChecksum(dir) ==
    /\ dir.hasSums
    /\ \E i \in 1..Len(dir.sums) :
          /\ dir.sums[i].filename \in DOMAIN dir.files
          /\ dir.sums[i].checksum # <<>>
          /\ dir.sums[i].checksum # <<"sha256", dir.files[dir.sums[i].filename]>>

AllItemsMatch(dir) == ~dir.hasSums \/ (~ListsWrongChecksum(dir) /\ ~LacksEntry(dir))

\* The versions discovery finds for stream s that the catalog published before
\* this build does not reference.
NewVersions(s) ==
    {pv \in Products \X VersionNames : HoldsMetadataAndRootfs(disk[s][pv[1]][pv[2]])}
        \ Refs(InPlace(prevMeta, s))

\* C2: when a new version has a SHA256SUMS file that lists a wrong checksum for
\* one of its items, the build (with no other failure) does not insert that
\* version, inserts every other new version of the product whose items all
\* match, and buildProductCatalog returns (it does not crash).
C2_MismatchDropsOnlyThatVersion ==
    (pass >= 1 /\ Ended(pass) /\ faults = {}) =>
        \A s \in Streams : \A pv \in NewVersions(s) :
            ListsWrongChecksum(disk[s][pv[1]][pv[2]]) =>
                /\ status[pass] = "ok"
                /\ pv \notin Refs(InPlace(meta, s))
                /\ \A pw \in NewVersions(s) :
                      (pw[1] = pv[1] /\ AllItemsMatch(disk[s][pw[1]][pw[2]]))
                          => pw \in Refs(InPlace(meta, s))

\* C3: a job never inserts into the catalog a version whose SHA256SUMS file has
\* no entry for its metadata item or for one of its rootfs items.
C3_MissingEntryNotInserted ==
    [][\A p \in Products, v \in VersionNames :
          (pc = "enqueue" /\ ~Inserted(p, v) /\ Inserted(p, v)')
              => ~LacksEntry(disk[streamNames[si]][p][v])]_vars

\* A build ended after a job dropped, on a checksum mismatch, a version whose
\* SHA256SUMS lacks the entry of a rootfs item.
C3_Witness ==
    /\ pass >= 1
    /\ Ended(pass)
    /\ status[pass] = "ok"
    /\ \E e \in log :
          /\ e.outcome = "checksum-mismatch"
          /\ LacksEntry(disk[e.stream][e.p][e.v])
          /\ ~ListsWrongChecksum(disk[e.stream][e.p][e.v])
          /\ <<e.p, e.v>> \notin Refs(InPlace(meta, e.stream))

\* C4: whenever index.json is in place, every catalog it lists is in place and
\* was written by the same build or a later one: the index of a build is never
\* in place before the catalogs of that build.
C4_CatalogsBeforeIndex ==
    IndexPath \in DOMAIN meta =>
        \A s \in DOMAIN meta[IndexPath].index :
            /\ CatalogPath(s) \in DOMAIN meta
            /\ meta[CatalogPath(s)].run >= meta[IndexPath].run

\* A build failed in the middle of the rename phase: one of its catalogs is in
\* place, its index is not.
C4_Witness ==
    /\ pass >= 1
    /\ Ended(pass)
    /\ status[pass] = "error"
    /\ \E s \in Streams :
          /\ CatalogPath(s) \in DOMAIN meta
          /\ meta[CatalogPath(s)].run = pass
    /\ IndexPath \in DOMAIN meta => meta[IndexPath].run < pass

\* C5: a job ends with "Failed to create delta file" only when its own call of
\* createDeltaFiles failed: a failure of another job never drops a version.
C5_FailureStaysScoped ==
    \A e \in log : e.outcome = "delta-error" => e.own = "delta-error"

\* C6: after the context is cancelled, buildProductCatalog is never left with
\* every worker gone while jobs it waits for are outstanding (it would then
\* never return).
C6_CancelledBuildReturns ==
    ~(pc = "enqueue" /\ cancelled /\ idle = 0 /\ running = {} /\ wg > 0)

\* C7: a second build that follows a successful build, with no failure of its
\* own, succeeds and leaves every catalog as the first build published it.
C7_SecondBuildIsNoOp ==
    (Ended(2) /\ status[1] = "ok" /\ faults = {}) =>
        /\ status[2] = "ok"
        /\ \A s \in Streams : InPlace(meta, s) = InPlace(prevMeta, s)

\* C8: every (product, version) pair that the catalog published before a build
\* references is still referenced by the catalog in place, at every moment of
\* the build and after it.
C8_BuildNeverDeletes ==
    \A s \in Streams : Refs(InPlace(prevMeta, s)) \subseteq Refs(InPlace(meta, s))

\* A build succeeded and published a catalog that still references a version
\* that is gone from the disk.
C8_Witness ==
    /\ pass >= 1
    /\ Ended(pass)
    /\ status[pass] = "ok"
    /\ \E s \in Streams :
          /\ CatalogPath(s) \in DOMAIN meta
          /\ meta[CatalogPath(s)].run = pass
          /\ \E pv \in Refs(InPlace(prevMeta, s)) :
                /\ ~disk[s][pv[1]][pv[2]].exists
                /\ pv \in Refs(InPlace(meta, s))

\* The version names of product id in a result map of diffProducts.
VersionsIn(products, id) ==
    IF id \in DOMAIN products THEN DOMAIN products[id].Versions ELSE {}

\* C9: diffProducts returns for every pair of product maps; added holds, per
\* product of new, the versions of new that old lacks (with their contents), and
\* removed the same with old and new swapped.
C9_DiffProducts ==
    diffed.done =>
        /\ ~diffed.result.panic
        /\ \A id \in Products :
              /\ VersionsIn(diffed.result.new, id) =
                    VersionsIn(newProducts, id) \ VersionsIn(oldProducts, id)
              /\ VersionsIn(diffed.result.old, id) =
                    VersionsIn(oldProducts, id) \ VersionsIn(newProducts, id)
              /\ \A v \in VersionsIn(diffed.result.new, id) :
                    diffed.result.new[id].Versions[v] = newProducts[id].Versions[v]
              /\ \A v \in VersionsIn(diffed.result.old, id) :
                    diffed.result.old[id].Versions[v] = oldProducts[id].Versions[v]

\* The name of the delta of rootfs file f from the version named pre.
VcdiffOf(f, pre) ==
    SubSeq(f, 1, Len(f) - 1) \o pre \o
        (IF f[Len(f)] = "qcow2" THEN <<"qcow2", "vcdiff">> ELSE <<"vcdiff">>)

\* The complete versions of a product, oldest first.
CompleteVersions(pdirs) ==
    SelectSeq(<<V1, V2, V3>>, LAMBDA v : HoldsMetadataAndRootfs(pdirs[v]))

\* C10: after a build in which no tool or file operation failed, every
\* non-oldest complete version holds, for each of its rootfs files, the vcdiff
\* from its predecessor if and only if the predecessor holds a file of the same
\* name.
C10_DeltaIffSourceExists ==
    (pass >= 1 /\ Ended(pass) /\ faults = {}) =>
        \A s \in Streams, p \in Products :
            LET complete == CompleteVersions(disk[s][p])
            IN \A i \in 2..Len(complete) :
                  LET cur == disk[s][p][complete[i]]
                      pre == disk[s][p][complete[i - 1]]
                  IN \A f \in {n \in DOMAIN cur.files : n[Len(n)] \in {"squashfs", "qcow2"}} :
                        VcdiffOf(f, complete[i - 1]) \in DOMAIN cur.files
                            <=> f \in DOMAIN pre.files

\* The position of a version name in the lexicographic order of the names.
Rank(v) == CHOOSE i \in 1..4 : <<<<"", "v2">>, <<"v1">>, <<"v2">>, <<"v3">>>>[i] = v

\* The version directory is complete in the sense of the documentation: it holds
\* the metadata and a rootfs, and its name does not start with a dot.
CompleteAndVisible(pdirs, v) == HoldsMetadataAndRootfs(pdirs[v]) /\ v[1] # ""

\* The predecessor of version v: the greatest complete version below v, if any.
PredecessorsOf(pdirs, v) ==
    {w \in DOMAIN pdirs :
        /\ Rank(w) < Rank(v)
        /\ CompleteAndVisible(pdirs, w)
        /\ \A u \in DOMAIN pdirs :
              (Rank(w) < Rank(u) /\ Rank(u) < Rank(v)) => ~CompleteAndVisible(pdirs, u)}

\* The rootfs files of a directory.
RootfsFiles(dir) == {n \in DOMAIN dir.files : n[Len(n)] \in {"squashfs", "qcow2"}}

\* A job ended its delta generation without a failure of its own.
DeltasDone(p, v) ==
    /\ \E j \in running : j.p = p /\ j.v = v /\ j.at = "delta"
    /\ \E j \in running' : j.p = p /\ j.v = v /\ j.at = "check" /\ j.own = "nil"

\* C11: every delta file a job writes into version v is the delta of a rootfs
\* file of v from the predecessor of v, the greatest complete version of the
\* product below v (so never from an incomplete version lying between them), and
\* a job whose delta generation does not fail leaves v with the delta of each
\* rootfs file that the predecessor holds too.
C11_PredecessorIsGreatestComplete ==
    [][\A s \in Streams, p \in Products, v \in VersionNames :
          LET cur == disk[s][p][v]
              pre == PredecessorsOf(disk[s][p], v)
          IN /\ \A n \in DOMAIN disk'[s][p][v].files \ DOMAIN cur.files :
                   \E w \in pre, f \in RootfsFiles(cur) : n = VcdiffOf(f, w)
             /\ (pc = "enqueue" /\ streamNames[si] = s /\ DeltasDone(p, v)) =>
                   \A w \in pre :
                      \A f \in RootfsFiles(cur) \cap RootfsFiles(disk[s][p][w]) :
                         VcdiffOf(f, w) \in DOMAIN disk'[s][p][v].files]_vars

\* C12: the delta file createDeltaFiles names for a rootfs item against the
\* predecessor prev is classified by GetItem with the delta type of the item
\* (squashfs.vcdiff for a squashfs, disk-kvm.img.vcdiff for a qcow2) and with
\* delta_base equal to prev.
C12_DeltaNameRoundTrips ==
    named.at = "classified" =>
        /\ named.Ftype = IF named.itemName[Len(named.itemName)] = "qcow2"
                         THEN <<"disk-kvm", "img", "vcdiff">>
                         ELSE <<"squashfs", "vcdiff">>
        /\ named.DeltaBase = named.preName

\* C13: every line a build appends to the SHA256SUMS file of a version names a
\* delta (vcdiff) file of that version that had no line yet, and starts with the
\* SHA-256 of that file, so that the file read again maps the delta's name to
\* its hash.
C13_AppendedLineHoldsDeltaHash ==
    [][\A s \in Streams, p \in Products, v \in VersionNames :
          LET old == disk[s][p][v]
              new == disk'[s][p][v]
          IN \A i \in (Len(old.sums) + 1)..Len(new.sums) :
                LET n == new.sums[i].filename
                IN /\ n \in DOMAIN new.files
                   /\ n[Len(n)] = "vcdiff"
                   /\ \A k \in 1..Len(old.sums) : old.sums[k].filename # n
                   /\ new.sums[i].checksum = <<"sha256", new.files[n]>>]_vars

\* The name of a hidden directory: it starts with a dot.
IsHiddenName(v) == v[1] = ""

\* C14: a version directory whose name starts with a dot is as if it did not
\* exist, even when it holds lxd.tar.xz and a rootfs: GetProduct and GetProducts
\* do not return it, no version holds a delta made from it, and no catalog of
\* the build references it.
C14_HiddenVersionsIgnored ==
    \A s \in StreamUniverse, p \in Products :
        /\ \A v \in DOMAIN GetProduct(disk[s][p]).Versions : ~IsHiddenName(v)
        /\ p \in DOMAIN GetProducts(disk[s]) =>
              \A v \in DOMAIN GetProducts(disk[s])[p].Versions : ~IsHiddenName(v)
        /\ \A v, h \in VersionNames :
              IsHiddenName(h) =>
                 \A f \in RootfsFiles(disk[s][p][v]) :
                    VcdiffOf(f, h) \notin DOMAIN disk[s][p][v].files
        /\ s \in Streams =>
              \A cat \in CatalogsOf(s) : \A pv \in Refs(cat) :
                 pv[1] = p => ~IsHiddenName(pv[2])

\* C15: after a successful build, index.json has an entry for every stream of
\* the build, and the products list of the entry is the set of the product ids
\* (keys) of the catalog in place for that stream.
C15_IndexListsCatalogKeys ==
    (pass >= 1 /\ Ended(pass) /\ status[pass] = "ok") =>
        /\ IndexPath \in DOMAIN meta
        /\ \A s \in Streams :
              /\ s \in DOMAIN meta[IndexPath].index
              /\ CatalogPath(s) \in DOMAIN meta
              /\ meta[IndexPath].index[s].Products = DOMAIN meta[CatalogPath(s)].catalog

\* A build succeeded and its index lists a product that the catalog published
\* by the same build holds without any version.
C15_Witness ==
    /\ pass >= 1
    /\ Ended(pass)
    /\ status[pass] = "ok"
    /\ meta[IndexPath].run = pass
    /\ \E s \in Streams : \E p \in meta[IndexPath].index[s].Products :
          DOMAIN meta[CatalogPath(s)].catalog[p].Versions = {}

\* The name of a staging file: .<stream>.json.tmp or .index.json.tmp.
IsStagingName(f) == f[1] = "" /\ f[Len(f)] = "tmp"

\* C16: when buildIndex returns before its rename phase (the catalog of a stream
\* could not be built, a catalog staging file or the index staging file could
\* not be written), the metadata directory holds no staging file.
C16_NoStagingFileLeft ==
    [][(pc \in {"catalog", "enqueue", "index"} /\ pc' = "idle") =>
          \A f \in DOMAIN meta' : ~IsStagingName(f)]_vars

\* The directory holds an image.yaml that does not parse.
HoldsBadConfig(dir) ==
    /\ <<"image", "yaml">> \in DOMAIN dir.files
    /\ dir.files[<<"image", "yaml">>] = "not-yaml"

\* C17: an image.yaml that fails to parse costs only its own version: a build
\* in which nothing else fails (and that does not crash) is not aborted with an
\* error, and the catalogs in place reference every other version directory that
\* holds the metadata and a rootfs and has no SHA256SUMS file, of the same product
\* and of the other products.
C17_BadConfigSkipsOnlyItsVersion ==
    (pass >= 1 /\ Ended(pass) /\ faults = {} /\ status[pass] # "panic") =>
        /\ status[pass] = "ok"
        /\ \A s \in Streams, p \in Products, v \in VersionNames :
              (/\ HoldsMetadataAndRootfs(disk[s][p][v])
               /\ ~disk[s][p][v].hasSums
               /\ ~HoldsBadConfig(disk[s][p][v]))
                  => <<p, v>> \in Refs(InPlace(meta, s))

(***************************************************************************)
(* Quota pruning.                                                          *)
(***************************************************************************)
\* The complete versions of a product on a disk, as stream.GetProduct finds them.
CompleteOn(d, s, p) == DOMAIN GetProduct(d[s][p]).Versions

\* The incomplete versions of a product on a disk.
IncompleteOn(d, s, p) ==
    {v \in VersionNames :
        d[s][p][v].exists /\ GetVersion(d[s][p][v], FALSE).err = "incomplete"}

\* The versions of a product that the catalog published before the call references.
RefsBefore(s, p) ==
    IF p \in DOMAIN LoadCatalog(prevMeta, s)
    THEN DOMAIN LoadCatalog(prevMeta, s)[p].Versions
    ELSE {}

\* The call has returned without error and the catalog was published before it.
PrunedWithCatalog ==
    /\ pruned.done
    /\ pruned.err = "nil"
    /\ CatalogPath(streamNames[1]) \in DOMAIN prevMeta

C21_RetainBelowOneRejected ==
    (pruned.done /\ retainNum < 1) =>
        /\ pruned.err = "invalid-arg"
        /\ disk = pruned.before
        /\ meta = prevMeta

\* A rejected call on a stream whose catalog references a version on the disk.
C21_Witness ==
    /\ pruned.done
    /\ retainNum < 1
    /\ CatalogPath(streamNames[1]) \in DOMAIN prevMeta
    /\ \E p \in DOMAIN LoadCatalog(prevMeta, streamNames[1]) :
          \E v \in RefsBefore(streamNames[1], p) : disk[streamNames[1]][p][v].exists

(***************************************************************************)
(* The dangling sweep.                                                     *)
(***************************************************************************)
\* The call has returned and the catalog was published before it.
SweptWithCatalog ==
    /\ swept.done
    /\ CatalogPath(streamNames[1]) \in DOMAIN prevMeta

\* The versions of a product on the disk that the catalog does not reference
\* and whose youngest file is older than the freshness window.
StaleUnreferenced(d, p) ==
    {v \in VersionNames :
        /\ d[streamNames[1]][p][v].exists
        /\ v \notin RefsBefore(streamNames[1], p)
        /\ fileAge[p][v] > FreshnessWindow}

C23_ReferencedAndFreshKept ==
    swept.done =>
        \A p \in Products : \A v \in VersionNames :
            (\/ v \in RefsBefore(streamNames[1], p)
             \/ fileAge[p][v] <= FreshnessWindow)
                => disk[streamNames[1]][p][v] = swept.before[streamNames[1]][p][v]

\* A sweep that removed a version next to a stale referenced version and a
\* fresh unreferenced one, which are both still there.
C23_Witness ==
    /\ SweptWithCatalog
    /\ \E p \in DOMAIN LoadCatalog(prevMeta, streamNames[1]) :
          /\ \E v \in RefsBefore(streamNames[1], p) :
                /\ disk[streamNames[1]][p][v].exists
                /\ fileAge[p][v] > FreshnessWindow
          /\ \E v \in VersionNames \ RefsBefore(streamNames[1], p) :
                /\ disk[streamNames[1]][p][v].exists
                /\ fileAge[p][v] <= FreshnessWindow
          /\ \E v \in VersionNames :
                /\ swept.before[streamNames[1]][p][v].exists
                /\ ~disk[streamNames[1]][p][v].exists

RemovedByPrune(p) ==
    {v \in VersionNames :
        /\ pruned.before[streamNames[1]][p][v].exists
        /\ ~disk[streamNames[1]][p][v].exists}

\* C25: after a prune pass that deleted versions, the rewritten catalog
\* references no version whose directory was removed and still references every
\* version it referenced before whose directory was retained, and the product
\* list of the index entry of the stream is the product set of that catalog.
C25_CatalogAndIndexReflectDeletion ==
    (PrunedWithCatalog /\ \E p \in Products : RemovedByPrune(p) # {}) =>
        /\ \A p \in DOMAIN LoadCatalog(prevMeta, streamNames[1]) :
              /\ p \in DOMAIN LoadCatalog(meta, streamNames[1])
              /\ DOMAIN LoadCatalog(meta, streamNames[1])[p].Versions
                    \cap RemovedByPrune(p) = {}
              /\ \A v \in RefsBefore(streamNames[1], p) :
                    disk[streamNames[1]][p][v].exists
                        => v \in DOMAIN LoadCatalog(meta, streamNames[1])[p].Versions
        /\ IndexPath \in DOMAIN meta
        /\ streamNames[1] \in DOMAIN meta[IndexPath].index
        /\ meta[IndexPath].index[streamNames[1]].Products
              = DOMAIN LoadCatalog(meta, streamNames[1])

\* A prune pass removed one referenced version and retained another one.
C25_Witness ==
    /\ PrunedWithCatalog
    /\ \E p \in DOMAIN LoadCatalog(prevMeta, streamNames[1]) :
          /\ RemovedByPrune(p) # {}
          /\ \E v \in RefsBefore(streamNames[1], p) : disk[streamNames[1]][p][v].exists

(***************************************************************************)
(* Empty directories.                                                      *)
(***************************************************************************)
\* d is dir or lies beneath it.
Beneath(dir, d) == \E k \in 0..Len(d) : SubSeq(d, 1, k) = dir

\* A regular file lies somewhere beneath d.
SubtreeHasFile(d) == \E f \in tree.files : Beneath(d, f)

\* C26: pruneEmptyDirs(root, keepRoot) removes exactly the directories beneath
\* root whose subtree holds no regular file, nested chains of empty directories
\* included, and leaves every directory that holds a file directly or
\* transitively and everything outside root; with keepRoot the root stays even
\* if empty, without it an empty root goes too, also when root is spelled with
\* ".", ".." or repeated separators.
C26_ExactlyEmptySubtreesRemoved ==
    tree.done =>
        \A d \in tree.before :
            d \in tree.dirs <=>
                \/ ~Beneath(Denoted(tree.rootDir), d)
                \/ SubtreeHasFile(d)
                \/ d = Denoted(tree.rootDir) /\ tree.keepRoot

\* An unclean root was pruned with keepRoot: a chain of nested empty
\* directories is gone, a directory with a file and the empty root are there.
C26_Witness ==
    /\ tree.done
    /\ tree.keepRoot
    /\ tree.rootDir # Denoted(tree.rootDir)
    /\ {<<"root", "parent">>, <<"root", "parent", "child">>} \subseteq tree.before
    /\ {<<"root", "parent">>, <<"root", "parent", "child">>} \cap tree.dirs = {}
    /\ <<"side">> \in tree.dirs
    /\ \/ <<"root", "other">> \in tree.dirs
       \/ ~SubtreeHasFile(<<"root">>) /\ <<"root">> \in tree.dirs

NoCompleteVersion(pdirs) == \A v \in DOMAIN pdirs : ~HoldsMetadataAndRootfs(pdirs[v])

CompletePositions == {i \in 1..3 : configured.versions[i].complete}

\* The image configuration of the alphabetically last version of the product.
LastConfig ==
    IF CompletePositions = {} THEN NoImageConfig
    ELSE configured.versions[CHOOSE i \in CompletePositions :
                              \A j \in CompletePositions : j <= i].config

\* C29: the requirements and the additional release aliases of a product are
\* those of the image configuration of its alphabetically last version only;
\* the configuration files of earlier versions contribute nothing.
C29_ConfigOfLastVersionOnly ==
    configured.done =>
        /\ configured.Requirements = LastConfig.Requirements
        /\ configured.Aliases =
              DefaultAliases("ubuntu", "noble", configured.Variant)
              \o ConfigAliases(LastConfig, "ubuntu", "noble", configured.Variant)

\* The number of workers buildProductCatalog is to use: workers, or 1 when
\* workers is below 1.
PoolSize == IF workers < 1 THEN 1 ELSE workers

\* C30: while buildProductCatalog processes the new products, the workers that
\* wait or execute a job are PoolSize in number (fewer only after workers left
\* on cancellation), at most PoolSize jobs execute at the same time, and at most
\* PoolSize jobs are enqueued and not yet taken.
C30_WorkerDiscipline ==
    pc = "enqueue" =>
        /\ idle >= 0
        /\ idle + Cardinality(running) <= PoolSize
        /\ ~cancelled => idle + Cardinality(running) = PoolSize
        /\ Cardinality(running) <= PoolSize
        /\ Len(jobs) <= PoolSize

\* Called with workers below 1: the only worker executes a job, another job
\* fills the queue and the producer has a third one to send.
C30_Witness ==
    /\ pc = "enqueue"
    /\ workers < 1
    /\ idle = 0
    /\ Cardinality(running) = 1
    /\ Len(jobs) = 1
    /\ todoV # {}

(***************************************************************************)
(* Jobs and the catalog.                                                   *)
(***************************************************************************)
\* C31: buildProductCatalog returns the catalog only after every enqueued job
\* has finished: when it returns, no job is queued or running, the catalog that
\* is staged holds the version of every job that inserted one, and as long as
\* buildProductCatalog is not running no job is there that could change it.
C31_CatalogReturnedAfterAllJobs ==
    /\ [](pc # "enqueue" => (running = {} /\ jobs = <<>> /\ wg = 0))
    /\ [][(pc = "enqueue" /\ pc' # "enqueue") =>
            /\ running = {}
            /\ jobs = <<>>
            /\ (pc' \in {"catalog", "index"} =>
                  \A e \in log :
                     (e.stream = streamNames[si] /\ e.outcome = "inserted")
                        => <<e.p, e.v>> \in
                              Refs(meta'[CatalogPathTemp(streamNames[si])].catalog))]_vars

\* The catalog of a stream is staged after two workers inserted two versions.
C31_Witness ==
    /\ pc = "index"
    /\ workers = 2
    /\ \E e, f \in log :
          /\ e # f
          /\ e.outcome = "inserted"
          /\ f.outcome = "inserted"
          /\ e.stream = f.stream
          /\ {<<e.p, e.v>>, <<f.p, f.v>>}
                \subseteq Refs(meta[CatalogPathTemp(e.stream)].catalog)

\* The delta files in the directory of the version of job j.
DeltaFilesOf(j) ==
    {n \in DOMAIN disk[streamNames[si]][j.p][j.v].files : Ext(n) = <<"vcdiff">>}

\* C32: within a job the deltas are generated before the version is hashed and
\* the version is inserted last: a version about to be inserted lists every
\* delta file of its directory with a non-empty sha256, and a job whose delta
\* generation failed never hashes or inserts its version.
C32_DeltasBeforeHashes ==
    /\ \A e \in log : e.own = "delta-error" => e.outcome = "delta-error"
    /\ pc = "enqueue" =>
          \A j \in running :
              /\ j.own = "delta-error" => j.at = "check"
              /\ j.at = "insert" =>
                    \A n \in DeltaFilesOf(j) :
                        /\ n \in DOMAIN j.version.Items
                        /\ j.version.Items[n].SHA256 # NoHash

(***************************************************************************)
(* The catalog mutex.                                                      *)
(***************************************************************************)
\* No worker is inside createDeltaFiles, GetVersion or the verification of the
\* checksums while it holds the mutex.
NoWorkWhileHolding ==
    \A w \in MutexWorkers : mu.worker[w] \in {"work", "lock"} => mu.mutex # Worker(w)

QueuedPairs == {jobs[i] : i \in 1..Len(jobs)}

RunningPairs == {<<j.p, j.v>> : j \in running}

\* The directory new differs from old only by delta files named after the
\* version and another version of the product, and by lines added to SHA256SUMS.
OnlyDeltasAndSums(old, new, v) ==
    /\ new.exists = old.exists
    /\ new.hasSums = old.hasSums
    /\ DOMAIN old.files \subseteq DOMAIN new.files
    /\ \A n \in DOMAIN old.files : new.files[n] = old.files[n]
    /\ \A n \in DOMAIN new.files \ DOMAIN old.files :
          \E w \in VersionNames \ {v}, f \in RootfsFiles(old) : n = VcdiffOf(f, w)
    /\ Len(new.sums) >= Len(old.sums)
    /\ SubSeq(new.sums, 1, Len(old.sums)) = old.sums

\* C34: no two jobs that run at the same time write the same file: a version
\* directory is only written by the one running job of that (product, version),
\* which adds nothing but delta files named after the version and a previous
\* one and lines of the SHA256SUMS of that directory, and within one pass of
\* buildProductCatalog no (product, version) is handed to more than one job.
C34_JobsWriteOnlyTheirOwnDirectory ==
    [][/\ \A s \in StreamUniverse, p \in Products, v \in VersionNames :
             disk'[s][p][v] # disk[s][p][v] =>
                /\ pc = "enqueue"
                /\ s = streamNames[si]
                /\ Cardinality({j \in running : j.p = p /\ j.v = v}) = 1
                /\ \A q \in Products, w \in VersionNames :
                      <<q, w>> # <<p, v>> => disk'[s][q][w] = disk[s][q][w]
                /\ OnlyDeltasAndSums(disk[s][p][v], disk'[s][p][v], v)
       /\ Cardinality(running') = Cardinality(RunningPairs')
       /\ Cardinality(QueuedPairs') = Len(jobs')
       /\ QueuedPairs' \cap RunningPairs' = {}
       /\ Len(jobs') > Len(jobs) =>
             LET new == jobs'[Len(jobs')]
             IN /\ new \notin QueuedPairs \cup RunningPairs
                /\ \A e \in log :
                      e.stream = streamNames[si] => <<e.p, e.v>> # new]_vars

\* Two jobs of one product run at the same time, each past a delta generation
\* that left a delta file in its own version directory.
C34_Witness ==
    /\ pc = "enqueue"
    /\ \E j1, j2 \in running :
          /\ j1.p = j2.p
          /\ j1.v # j2.v
          /\ \A j \in {j1, j2} :
                /\ j.at = "check"
                /\ j.own = "nil"
                /\ \E n \in DOMAIN disk[streamNames[si]][j.p][j.v].files :
                      n[Len(n)] = "vcdiff"

(***************************************************************************)
(* Failed delta generation.                                                *)
(***************************************************************************)
\* C35: when calcVCDiff fails for an item of a version (xdelta3 fails, is
\* missing, or is stopped by the cancellation), the delta it was writing is not
\* left in the directory, createDeltaFiles returns the error, and the version
\* is not inserted into the catalog by this build.
C35_FailedDeltaDropsVersion ==
    pc = "enqueue" =>
        /\ \A j \in running :
              (j.own = "delta-error" /\ GetProductErr(disk[streamNames[si]][j.p]) = "nil") =>
                  DeltaTargets(disk[streamNames[si]][j.p], j.v) # {}
        /\ \A e \in log :
              (e.stream = streamNames[si] /\ e.own = "delta-error") =>
                  (e.p \in DOMAIN catalog => e.v \notin DOMAIN catalog[e.p].Versions)

(***************************************************************************)
(* Products left without versions.                                         *)
(***************************************************************************)
\* wg.Wait() is about to return and buildProductCatalog to return the catalog.
CatalogReturned ==
    /\ pc = "enqueue"
    /\ todoP = {}
    /\ todoV = {}
    /\ jobs = <<>>
    /\ running = {}
    /\ wg = 0

\* The complete versions of product p in stream s.
CompleteOnDisk(s, p) == {v \in VersionNames : HoldsMetadataAndRootfs(disk[s][p][v])}

\* Every complete version of the product was dropped with "Checksum mismatch".
AllDroppedByVerification(s, p) ==
    \A v \in CompleteOnDisk(s, p) :
        \E e \in log : /\ e.stream = s /\ e.p = p /\ e.v = v
                       /\ e.outcome = "checksum-mismatch"

\* C36: a product that the catalog read from the file does not hold and that
\* has a complete version on disk is in the catalog buildProductCatalog
\* returns, and with an empty version map when the checksum verification
\* dropped every one of its versions.
C36_NewProductKeptWithoutVersions ==
    CatalogReturned =>
        LET s == streamNames[si]
        IN \A p \in Products :
              (p \notin DOMAIN LoadCatalog(meta, s) /\ CompleteOnDisk(s, p) # {}) =>
                  /\ p \in DOMAIN catalog
                  /\ AllDroppedByVerification(s, p) =>
                        DOMAIN catalog[p].Versions = {}

\* The catalog about to be returned holds, without a version, a new product
\* whose complete versions were all dropped by the verification.
C36_Witness ==
    /\ CatalogReturned
    /\ \E p \in Products :
          /\ p \notin DOMAIN LoadCatalog(meta, streamNames[si])
          /\ CompleteOnDisk(streamNames[si], p) # {}
          /\ AllDroppedByVerification(streamNames[si], p)
          /\ p \in DOMAIN catalog
          /\ DOMAIN catalog[p].Versions = {}

(***************************************************************************)
(* Failures before the rename phase.                                       *)
(***************************************************************************)
\* The published files of the metadata directory: all but the staging files.
PublishedFiles(m) == [f \in {g \in DOMAIN m : ~IsStagingName(g)} |-> m[f]]

\* C37: until buildIndex reaches its rename phase, and when it fails before
\* it, the published files are those of before the call with the same content:
\* no catalog and no index was changed, added or removed, also when catalogs of
\* streams were staged already.
C37_PublishedFilesKeptBeforeRename ==
    [][(pc \in {"catalog", "enqueue", "index"}) =>
          PublishedFiles(meta') = PublishedFiles(prevMeta)]_vars

\* buildIndex failed to write the index staging file, after it had staged the
\* catalog of every stream, one of them with a version inserted by this call
\* and one of them published before.
C37_Witness ==
    /\ pass >= 1
    /\ Ended(pass)
    /\ status[pass] = "error"
    /\ IndexPathTemp \in DOMAIN meta
    /\ \E e \in log : e.outcome = "inserted"
    /\ \E s \in Streams : CatalogPath(s) \in DOMAIN prevMeta
    /\ PublishedFiles(meta) = PublishedFiles(prevMeta)

(***************************************************************************)
(* Entries published before.                                               *)
(***************************************************************************)
\* The entry of product p in the catalog cat holds the attributes and the
\* versions of the entry before, each version with the same items and hashes.
KeepsEntry(cat, before, p) ==
    /\ p \in DOMAIN cat
    /\ cat[p].Attributes = before[p].Attributes
    /\ \A v \in DOMAIN before[p].Versions :
          /\ v \in DOMAIN cat[p].Versions
          /\ cat[p].Versions[v] = before[p].Versions[v]

\* C38: build leaves what the published catalog held before: the catalog in
\* place holds every product of the previous catalog with the same attributes
\* and every version of it with the same items and hashes, and no job is
\* enqueued for a version the previous catalog references.
C38_PublishedEntriesUnchanged ==
    /\ \A s \in Streams :
          \A p \in DOMAIN InPlace(prevMeta, s) :
              KeepsEntry(InPlace(meta, s), InPlace(prevMeta, s), p)
    /\ pc = "enqueue" =>
          /\ \A p \in DOMAIN InPlace(prevMeta, streamNames[si]) :
                KeepsEntry(catalog, InPlace(prevMeta, streamNames[si]), p)
          /\ (QueuedPairs \cup RunningPairs)
                \cap Refs(InPlace(prevMeta, streamNames[si])) = {}
    /\ \A e \in log : <<e.p, e.v>> \notin Refs(InPlace(prevMeta, e.stream))

\* A build succeeded and published a catalog that holds a product of the
\* previous catalog with its versions next to a version this build inserted.
C38_Witness ==
    /\ pass >= 1
    /\ Ended(pass)
    /\ status[pass] = "ok"
    /\ \E s \in Streams :
          /\ meta[CatalogPath(s)].run = pass
          /\ \E p \in DOMAIN InPlace(prevMeta, s) :
                /\ DOMAIN InPlace(prevMeta, s)[p].Versions # {}
                /\ KeepsEntry(InPlace(meta, s), InPlace(prevMeta, s), p)
          /\ \E e \in log : /\ e.stream = s /\ e.outcome = "inserted"
                            /\ <<e.p, e.v>> \in Refs(InPlace(meta, s))

(***************************************************************************)
(* Growth of the checksums file.                                           *)
(***************************************************************************)
\* A job ends in this step with the version dropped.
DropsVersion(s, p, v) ==
    \E e \in log' \ log :
        e.stream = s /\ e.p = p /\ e.v = v /\ e.outcome # "inserted"

\* C39: a job that drops its version leaves the SHA256SUMS file of the version
\* as it was, and no build appends a line for a delta file that the file names
\* already, so that the file never holds more than one appended line per delta.
C39_ChecksumsFileDoesNotGrow ==
    [][\A s \in StreamUniverse, p \in Products, v \in VersionNames :
          LET old == disk[s][p][v]
              new == disk'[s][p][v]
          IN /\ DropsVersion(s, p, v) => new.sums = old.sums
             /\ \A i \in (Len(old.sums) + 1)..Len(new.sums) :
                   \A k \in 1..Len(old.sums) :
                       old.sums[k].filename # new.sums[i].filename]_vars

(***************************************************************************)
(* Staging paths and final paths.                                          *)
(***************************************************************************)
\* The paths of the staged file number i: where it is written and where it is
\* moved to.
PathsOf(i) == {replaces[i].OldPath, replaces[i].NewPath}

\* C40: within one buildIndex call the staging paths and the final paths of
\* the catalogs and of the index are pairwise distinct, whatever the list of
\* stream names, so that no rename hits a file another rename of the call put
\* in place.
C40_PathsPairwiseDistinct ==
    \A i, j \in 1..Len(replaces) :
        /\ replaces[i].OldPath # replaces[i].NewPath
        /\ i # j => PathsOf(i) \cap PathsOf(j) = {}

====
